---- MODULE Spec2Model ----
(***************************************************************************)
(* A model of the spatial-reasoning core of the roguelike `rl`:            *)
(*   - disjoint_sets.rs : the union-find forest                            *)
(*   - dijkstra_map.rs  : multi-source breadth-first distance maps         *)
(*   - vision.rs        : symmetric shadowcasting and Bresenham lines      *)
(*   - geometry.rs      : rectangles and their intersection                *)
(*   - level.rs         : the dungeon generator                            *)
(* Each subsystem has its own specification over its own variables; the    *)
(* variables of the other subsystems stay at their idle values.            *)
(***************************************************************************)
EXTENDS Integers, Sequences, FiniteSets, TLC

VARIABLES
    \* disjoint_sets.rs
    nodes,      \* DisjointSets.nodes: index -> [parent, size]
    merged,     \* history: the pairs {i, j}, i /= j, passed to merge so far
    last,       \* history: the last call, its first argument and its result
    \* dijkstra_map.rs
    goals,      \* input: the points where is_goal holds
    blocked,    \* input: the points of the grid where is_blocking holds
    distances,  \* DijkstraMap.distances: point -> distance, a partial map
    queue,      \* the breadth-first queue of DijkstraMap::new
    dpc,        \* where DijkstraMap::new stands: "seed", "search", "done"
    step,       \* the last step_towards / step_away call and its result
    \* vision.rs
    room,       \* input: <<width, height>> of the room of non-blocking tiles
    walls,      \* input: the blocking tiles inside the room
    origin,     \* the `origin` of the last get_vision call, <<>> before it
    vision,     \* the set get_vision returned
    vquadrant,  \* get_vision step by step: the index of the quadrant scanned
    vqueue,     \* the Vec `queue` of row sections of that quadrant
    vscan,      \* the state of the loop over the popped row section's columns
    vseen,      \* the local `vision` of the running get_vision
    vpc,        \* where get_vision stands: "idle", "scan", "done"
    \* level.rs: Level::generate
    config,     \* input: the GenerationConfig
    rooms,      \* the accepted rooms, in the order they were pushed
    floor_area, \* the floor area of the accepted rooms
    retries,    \* consecutive rejected candidates
    terrain,    \* point -> "Floor" or "Wall", a partial map
    edges,      \* the sorted room pairs still to be connected
    connected_rooms, \* the DisjointSets of connected rooms (its nodes)
    gpc,        \* where generate stands: "place", "carve", "connect", "done"
    taken,      \* history: the edges popped by the connection loop, in order
    \* geometry.rs: Rectangle
    rself,      \* input: the rectangle `self`
    rother,     \* input: the rectangle `other`
    rresult,    \* what intersection and touching returned for them, <<>> before
    \* level.rs: the closure make_floor
    mterrain,   \* the terrain map the carves are made in
    mcarved,    \* history: the coordinates carved as floor so far
    \* level.rs, creature.rs, game_state.rs: the creatures of a level
    lterrain,   \* Level.terrain: point -> "Floor" or "Wall"
    objects,    \* the Creature objects shared by the index, the update queue
                \* and the game state: name -> Creature
    creatures,  \* Level.creatures: point -> the object held for that point
    enemies_map, \* Level.dijkstra_maps.enemies[Faction::Enemy], its distances
    lqueue,     \* the creatures still in the Vec `queue` of Level::update
    lkeys,      \* the keys of an action pressed so far
    lpc         \* "spawn", "player", "play", "update"; "panic" after a failed
                \* unwrap or borrow of a creature, "no tile" after a failed
                \* spawn_player

dsVars == <<nodes, merged, last>>
dmVars == <<goals, blocked, distances, queue, dpc, step>>
viVars == <<room, walls, origin, vision, vquadrant, vqueue, vscan, vseen, vpc>>
geVars == <<config, rooms, floor_area, retries, terrain, edges, connected_rooms, gpc,
           taken>>
riVars == <<rself, rother, rresult>>
mfVars == <<mterrain, mcarved>>
lvVars == <<lterrain, objects, creatures, enemies_map, lqueue, lkeys, lpc>>
\* The variables of the parts that follow the rectangles.
laterVars == <<mfVars, lvVars>>
\* The variables of the parts that follow the generator.
restVars == <<riVars, laterVars>>

vars == <<nodes, merged, last, goals, blocked, distances, queue, dpc, step,
          room, walls, origin, vision, vquadrant, vqueue, vscan, vseen, vpc,
          config, rooms, floor_area, retries, terrain, edges, connected_rooms, gpc,
          taken, rself, rother, rresult, mterrain, mcarved,
          lterrain, objects, creatures, enemies_map, lqueue, lkeys, lpc>>

----------------------------------------------------------------------------
(* Helpers *)

Max(a, b) == IF a >= b THEN a ELSE b
Min(a, b) == IF a <= b THEN a ELSE b
Abs(a) == IF a >= 0 THEN a ELSE -a
Signum(a) == IF a > 0 THEN 1 ELSE IF a < 0 THEN -1 ELSE 0

----------------------------------------------------------------------------
(* Idle values of the dijkstra_map.rs variables *)

NoStep == [op |-> "none", coords |-> <<0, 0>>, ret |-> <<>>]

DMIdle ==
    /\ goals = {}
    /\ blocked = {}
    /\ distances = <<>>
    /\ queue = <<>>
    /\ dpc = "idle"
    /\ step = NoStep

VIIdle ==
    /\ room = <<1, 1>>
    /\ walls = {}
    /\ origin = <<>>
    /\ vision = {}
    /\ vquadrant = 0
    /\ vqueue = <<>>
    /\ vscan = <<>>
    /\ vseen = {}
    /\ vpc = "idle"

RIIdle ==
    /\ rself = <<>>
    /\ rother = <<>>
    /\ rresult = <<>>

MFIdle ==
    /\ mterrain = <<>>
    /\ mcarved = {}

LVIdle ==
    /\ lterrain = <<>>
    /\ objects = <<>>
    /\ creatures = <<>>
    /\ enemies_map = <<>>
    /\ lqueue = {}
    /\ lkeys = 0
    /\ lpc = "idle"

LaterIdle == MFIdle /\ LVIdle

RestIdle == RIIdle /\ LaterIdle

GEIdle ==
    /\ config = <<>>
    /\ rooms = <<>>
    /\ floor_area = 0
    /\ retries = 0
    /\ terrain = <<>>
    /\ edges = <<>>
    /\ connected_rooms = <<>>
    /\ gpc = "idle"
    /\ taken = <<>>

----------------------------------------------------------------------------
(* disjoint_sets.rs *)

\* Number of elements of the forest (the `len` given to DisjointSets::new).
DSLen == 4

DSIdx == 0 .. (DSLen - 1)

\* DisjointSets::new: `len` singleton sets.
DSNew(len) == [i \in 0 .. (len - 1) |-> [parent |-> i, size |-> 1]]

\* A find that walks to the root and leaves every parent as it was.
RECURSIVE FindNoCompression(_, _)
FindNoCompression(ns, i) ==
    IF ns[i].parent = i
    THEN [nodes |-> ns, ret |-> i]
    ELSE [nodes |-> ns, ret |-> FindNoCompression(ns, ns[i].parent).ret]

\* DisjointSets::find, with its path compression: the forest after the call
\* and the representative returned.
RECURSIVE Find(_, _)
Find(ns, i) ==
    IF ns[i].parent = i
    THEN [nodes |-> ns, ret |-> i]
    ELSE LET r == Find(ns, ns[i].parent)
         IN [nodes |-> [r.nodes EXCEPT ![i].parent = r.ret], ret |-> r.ret]

\* A merge that links the arguments themselves instead of their roots.
MergeNoFind(ns, i0, j0) ==
    IF i0 /= j0
    THEN LET i == IF ns[i0].size < ns[j0].size THEN j0 ELSE i0
             j == IF ns[i0].size < ns[j0].size THEN i0 ELSE j0
             n1 == [ns EXCEPT ![j].parent = i]
             n2 == [n1 EXCEPT ![i].size = n1[i].size + n1[j].size]
         IN [nodes |-> n2, ret |-> n2[i].size]
    ELSE [nodes |-> ns, ret |-> ns[i0].size]

\* A merge that returns the size cached at the absorbed root.
MergeAbsorbedSize(ns, i0, j0) ==
    LET f1 == Find(ns, i0)
        f2 == Find(f1.nodes, j0)
        n0 == f2.nodes
    IN IF f1.ret /= f2.ret
       THEN LET i == IF n0[f1.ret].size < n0[f2.ret].size THEN f2.ret ELSE f1.ret
                j == IF n0[f1.ret].size < n0[f2.ret].size THEN f1.ret ELSE f2.ret
                n1 == [n0 EXCEPT ![j].parent = i]
                n2 == [n1 EXCEPT ![i].size = n1[i].size + n1[j].size]
            IN [nodes |-> n2, ret |-> n2[j].size]
       ELSE [nodes |-> n0, ret |-> n0[f1.ret].size]

\* A merge without the test i != j: equal roots are linked and added too.
MergeNoRootTest(ns, i0, j0) ==
    LET f1 == Find(ns, i0)
        f2 == Find(f1.nodes, j0)
        n0 == f2.nodes
        i == IF n0[f1.ret].size < n0[f2.ret].size THEN f2.ret ELSE f1.ret
        j == IF n0[f1.ret].size < n0[f2.ret].size THEN f1.ret ELSE f2.ret
        n1 == [n0 EXCEPT ![j].parent = i]
        n2 == [n1 EXCEPT ![i].size = n1[i].size + n1[j].size]
    IN [nodes |-> n2, ret |-> n2[i].size]

\* A merge that swaps the roots on equal sizes too (<= for <).
MergeSwapOnEqual(ns, i0, j0) ==
    LET f1 == Find(ns, i0)
        f2 == Find(f1.nodes, j0)
        n0 == f2.nodes
    IN IF f1.ret /= f2.ret
       THEN LET i == IF n0[f1.ret].size <= n0[f2.ret].size THEN f2.ret ELSE f1.ret
                j == IF n0[f1.ret].size <= n0[f2.ret].size THEN f1.ret ELSE f2.ret
                n1 == [n0 EXCEPT ![j].parent = i]
                n2 == [n1 EXCEPT ![i].size = n1[i].size + n1[j].size]
            IN [nodes |-> n2, ret |-> n2[i].size]
       ELSE [nodes |-> n0, ret |-> n0[f1.ret].size]

\* DisjointSets::merge: the forest after the call and the size returned.
Merge(ns, i0, j0) ==
    LET f1 == Find(ns, i0)
        f2 == Find(f1.nodes, j0)
        n0 == f2.nodes
    IN IF f1.ret /= f2.ret
       THEN LET i == IF n0[f1.ret].size < n0[f2.ret].size THEN f2.ret ELSE f1.ret
                j == IF n0[f1.ret].size < n0[f2.ret].size THEN f1.ret ELSE f2.ret
                n1 == [n0 EXCEPT ![j].parent = i]
                n2 == [n1 EXCEPT ![i].size = n1[i].size + n1[j].size]
            IN [nodes |-> n2, ret |-> n2[i].size]
       ELSE [nodes |-> n0, ret |-> n0[f1.ret].size]

DSIdle ==
    /\ nodes = <<>>
    /\ merged = {}
    /\ last = [op |-> "idle", i |-> 0, ret |-> 0]

DSInit ==
    /\ nodes = DSNew(DSLen)
    /\ merged = {}
    /\ last = [op |-> "new", i |-> 0, ret |-> 0]
    /\ DMIdle
    /\ VIIdle
    /\ GEIdle
    /\ RestIdle

DSMerge(i, j) ==
    LET m == Merge(nodes, i, j)
    IN /\ nodes' = m.nodes
       /\ merged' = merged \cup (IF i = j THEN {} ELSE {{i, j}})
       /\ last' = [op |-> "merge", i |-> i, ret |-> m.ret]
       /\ UNCHANGED dmVars
       /\ UNCHANGED viVars
       /\ UNCHANGED geVars
       /\ UNCHANGED restVars

DSFind(i) ==
    LET f == Find(nodes, i)
    IN /\ nodes' = f.nodes
       /\ last' = [op |-> "find", i |-> i, ret |-> f.ret]
       /\ UNCHANGED merged
       /\ UNCHANGED dmVars
       /\ UNCHANGED viVars
       /\ UNCHANGED geVars
       /\ UNCHANGED restVars

DSNext ==
    \/ \E i \in DSIdx, j \in DSIdx : DSMerge(i, j)
    \/ \E i \in DSIdx : DSFind(i)

SpecDS == DSInit /\ [][DSNext]_vars

\* The representative find would return for i, then for j, called in a row.
SameRep(ns, i, j) ==
    LET f1 == Find(ns, i)
        f2 == Find(f1.nodes, j)
    IN f1.ret = f2.ret

\* The equivalence closure of the merged pairs, computed from the history
\* alone: the elements reachable from i through pairs passed to merge (a
\* pair (i, i) adds nothing to a reflexive closure and is not recorded).
RECURSIVE Component(_, _)
Component(S, k) ==
    IF k = 0 THEN S
    ELSE Component(S \cup {b \in DSIdx : \E a \in S : {a, b} \in merged}, k - 1)

Related(i, j) == j \in Component({i}, DSLen)

\* C2: find(i) = find(j) exactly when i and j are related by the reflexive,
\* symmetric, transitive closure of the pairs passed to merge so far.
C2_FindIffMerged ==
    \A i \in DSIdx, j \in DSIdx : SameRep(nodes, i, j) <=> Related(i, j)

\* C2 witness: 0 and 2 were never merged with each other directly, yet are
\* in one set through 1, while 3 is still apart from them.
C2_Witness ==
    /\ {0, 2} \notin merged
    /\ {0, 1} \in merged /\ {1, 2} \in merged
    /\ SameRep(nodes, 0, 2)
    /\ ~SameRep(nodes, 0, 3)

\* C6: the value merge(i, j) returns is the number of elements of the set
\* that holds i and j after the call.
C6_MergeReturnsSize ==
    last.op = "merge" =>
        last.ret = Cardinality({k \in DSIdx : SameRep(nodes, k, last.i)})

\* C6 witness: the third merge joined two sets of two elements and
\* returned 4.
C6_Witness ==
    /\ last.op = "merge"
    /\ last.ret = 4
    /\ Cardinality(merged) = 3
    /\ \E a, b, c, d \in DSIdx :
          /\ Cardinality({a, b, c, d}) = 4
          /\ merged = {{a, b}, {c, d}, {a, c}}

\* The root of i, read off the parents without changing them.
RECURSIVE RootOf(_, _)
RootOf(ns, i) == IF ns[i].parent = i THEN i ELSE RootOf(ns, ns[i].parent)

\* The nodes on the parent chain from i up to its root, both included.
RECURSIVE Chain(_, _)
Chain(ns, i) == IF ns[i].parent = i THEN {i} ELSE {i} \cup Chain(ns, ns[i].parent)

Roots(ns) == {r \in DOMAIN ns : ns[r].parent = r}

\* The partition and the cached set sizes are the same in both forests:
\* every element has the same root, and that root the same size.
SameSets(ns1, ns2) ==
    \A k \in DOMAIN ns1 :
        LET r == RootOf(ns1, k)
        IN RootOf(ns2, k) = r /\ ns2[r].size = ns1[r].size

\* The step is the call merge(i, j), whose i the step records in last.  The
\* first three conjuncts follow from DSMerge(i, j) and only spare evaluating
\* it for the other pairs.
IsMerge(i, j) ==
    /\ last'.op = "merge"
    /\ last'.i = i
    /\ (i = j \/ {i, j} \in merged')
    /\ DSMerge(i, j)

\* The step is the call find(i).
IsFind(i) ==
    /\ last'.op = "find"
    /\ last'.i = i
    /\ DSFind(i)

\* C17: in every forest the calls reach, a merge of two elements of one set
\* leaves the partition and every cached set size as they were and returns
\* the cached size of that set.  With every root and root size as before, the
\* two elements are in one set after the call too, so the same holds of the
\* same merge made once more, any number of times: the same value, every
\* find result as it was.
C17_MergeSameSetIsNoOp ==
    \A i \in DSIdx, j \in DSIdx :
        RootOf(nodes, i) = RootOf(nodes, j) =>
            LET m == Merge(nodes, i, j)
                again == Merge(m.nodes, i, j)
            IN /\ SameSets(nodes, m.nodes)
               /\ m.ret = nodes[RootOf(nodes, i)].size
               /\ again.ret = m.ret
               /\ \A k \in DSIdx : Find(again.nodes, k).ret = Find(nodes, k).ret

\* C17 witness: 0, 1 and 2 were merged pairwise, so the last of these merges
\* was given two elements of one set, and it returned that set's size, 3.
C17_Witness ==
    /\ last.op = "merge"
    /\ merged = {{0, 1}, {1, 2}, {0, 2}}
    /\ last.ret = 3

\* C18: find(i) returns the root of i and leaves every node of the parent
\* chain from i to that root with the root as its parent, every other node
\* as it was, and the partition and the root sizes unchanged.
C18_FindCompressesPath ==
    [][LET i == last'.i
       IN IsFind(i) =>
            /\ last'.ret = RootOf(nodes, i)
            /\ \A k \in Chain(nodes, i) : nodes'[k].parent = last'.ret
            /\ \A k \in DSIdx \ Chain(nodes, i) : nodes'[k] = nodes[k]
            /\ SameSets(nodes, nodes')]_vars

\* C18 witness: 3 was attached under 2 and 2 under 0, and after find(3) both
\* have 0 as their parent (2 still holds the size it had as a root).
C18_Witness ==
    /\ last = [op |-> "find", i |-> 3, ret |-> 0]
    /\ merged = {{0, 1}, {2, 3}, {1, 3}}
    /\ nodes[2].size = 2
    /\ nodes[2].parent = 0
    /\ nodes[3].parent = 0

\* C19: a merge of two different sets attaches the root with the smaller
\* cached size under the other root, the root of j's set under the root of
\* i's set on equal sizes; the surviving root holds the sum of the two sizes,
\* which is the value returned.
C19_MergeIsUnionBySize ==
    [][\A j \in DSIdx :
          LET i == last'.i
          IN (IsMerge(i, j) /\ RootOf(nodes, i) /= RootOf(nodes, j)) =>
              LET ri == RootOf(nodes, i)
                  rj == RootOf(nodes, j)
                  big == IF nodes[ri].size < nodes[rj].size THEN rj ELSE ri
                  small == IF nodes[ri].size < nodes[rj].size THEN ri ELSE rj
              IN /\ nodes'[small].parent = big
                 /\ nodes'[big].parent = big
                 /\ nodes'[big].size = nodes[ri].size + nodes[rj].size
                 /\ last'.ret = nodes[ri].size + nodes[rj].size
                 /\ Roots(nodes') = Roots(nodes) \ {small}]_vars

\* C19 witness: the single element 2 was merged, as the first argument, with
\* the set {0, 1}, in which 1 had gone under 0 in a merge of equal sizes: 2
\* went under 0, whose size became 3.
C19_Witness ==
    /\ last = [op |-> "merge", i |-> 2, ret |-> 3]
    /\ merged = {{0, 1}, {0, 2}}
    /\ nodes[1].parent = 0
    /\ nodes[2].parent = 0
    /\ nodes[0] = [parent |-> 0, size |-> 3]

----------------------------------------------------------------------------
(* geometry.rs: points, vectors and the unit offsets *)

TILE_UP == <<0, -1>>
TILE_DOWN == <<0, 1>>
TILE_LEFT == <<-1, 0>>
TILE_RIGHT == <<1, 0>>

\* The four unit offsets in the order the searches examine them.
NEIGHBOR_OFFSETS_FOUR == <<TILE_UP, TILE_DOWN, TILE_LEFT, TILE_RIGHT>>

\* Point + Vector and Point - Point.
PointAdd(p, v) == <<p[1] + v[1], p[2] + v[2]>>
PointSub(p, q) == <<p[1] - q[1], p[2] - q[2]>>

Range(f) == {f[k] : k \in DOMAIN f}

\* The sequences that list every element of S once: an iteration order.
Orders(S) ==
    {f \in [1 .. Cardinality(S) -> S] : \A a, b \in DOMAIN f : f[a] = f[b] => a = b}

----------------------------------------------------------------------------
(* dijkstra_map.rs *)

\* The points of the model are a DWidth x DHeight grid; every point outside
\* it is blocking, as every point outside a level's terrain is (level.rs,
\* Level::collision returns OutOfBounds there).
DWidth == 3
DHeight == 2
\* At most this many blocking points inside the grid, and goal points.
MaxBlocked == 1
MaxGoals == 2

DUniverse == (0 .. (DWidth - 1)) \X (0 .. (DHeight - 1))

\* The `tiles` handed to DijkstraMap::new: all columns but the last, so that
\* the grid also holds points that are not tiles.
DTiles == {p \in DUniverse : p[1] < DWidth - 1}

\* The subsets of S of at most n elements.
RECURSIVE SubsetsUpTo(_, _)
SubsetsUpTo(S, n) ==
    IF n = 0 THEN {{}}
    ELSE LET smaller == SubsetsUpTo(S, n - 1)
         IN smaller \cup {T \cup {x} : T \in smaller, x \in S}

is_goal(p) == p \in goals
\* The is_blocking handed to DijkstraMap::new: the blocking points of the
\* grid and every point outside it (as Level::collision has it, where a point
\* without a tile is out of bounds).
is_blocking(p) == p \notin DUniverse \/ p \in blocked

\* distances.get(p) is Some.
HasDistance(dist, p) == p \in DOMAIN dist

\* DijkstraMap::distance: Some(d) is <<d>>, None is <<>>.
DijkstraDistance(dist, coords) ==
    IF coords \in DOMAIN dist THEN <<dist[coords]>> ELSE <<>>

\* A neighbour visit that records distance + 2.
NeighborDistanceSkips(distance) == distance + 2

\* The distance recorded for a neighbour that is being visited from a tile
\* at `distance`, left unchanged.
NeighborDistanceSame(distance) == distance

\* The distance recorded for a neighbour visited from a tile at `distance`.
NeighborDistance(distance) == distance + 1

\* The loop over NEIGHBOR_OFFSETS_FOUR for one popped (coords, distance),
\* from the k-th offset on: the map and the queue after it.
RECURSIVE VisitNeighbors(_, _, _, _, _)
VisitNeighbors(dist, q, coords, distance, k) ==
    IF k > Len(NEIGHBOR_OFFSETS_FOUR)
    THEN [distances |-> dist, queue |-> q]
    ELSE LET neighbor == PointAdd(coords, NEIGHBOR_OFFSETS_FOUR[k])
         IN IF is_blocking(neighbor)
            THEN VisitNeighbors(dist, q, coords, distance, k + 1)
            ELSE IF HasDistance(dist, neighbor)
            THEN VisitNeighbors(dist, q, coords, distance, k + 1)
            ELSE LET neighbor_distance == NeighborDistance(distance)
                 IN VisitNeighbors((neighbor :> neighbor_distance) @@ dist,
                                   Append(q, <<neighbor, neighbor_distance>>),
                                   coords, distance, k + 1)

DMInit ==
    /\ goals \in SubsetsUpTo(DUniverse, MaxGoals)
    /\ blocked \in SubsetsUpTo(DUniverse, MaxBlocked)
    /\ distances = <<>>
    /\ queue = <<>>
    /\ dpc = "seed"
    /\ step = NoStep
    /\ DSIdle
    /\ VIIdle
    /\ GEIdle
    /\ RestIdle

\* A seeding loop over every goal, tile or not.
DMSeedEveryGoal ==
    /\ dpc = "seed"
    /\ LET seeds == {p \in DUniverse : is_goal(p)}
       IN /\ distances' = [p \in seeds |-> 0]
          /\ \E order \in Orders(seeds) : queue' = [k \in DOMAIN order |-> <<order[k], 0>>]
    /\ dpc' = "search"
    /\ UNCHANGED <<goals, blocked, step>>
    /\ UNCHANGED dsVars
    /\ UNCHANGED viVars
    /\ UNCHANGED geVars
    /\ UNCHANGED restVars

\* DijkstraMap::new, the seeding loop: every goal tile gets distance 0 and is
\* pushed on the queue, in the order the `tiles` iterator yields them.
DMSeed ==
    /\ dpc = "seed"
    /\ LET seeds == {p \in DTiles : is_goal(p)}
       IN /\ distances' = [p \in seeds |-> 0]
          /\ \E order \in Orders(seeds) : queue' = [k \in DOMAIN order |-> <<order[k], 0>>]
    /\ dpc' = "search"
    /\ UNCHANGED <<goals, blocked, step>>
    /\ UNCHANGED dsVars
    /\ UNCHANGED viVars
    /\ UNCHANGED geVars
    /\ UNCHANGED restVars

\* DijkstraMap::new, one turn of `while let Some(..) = queue.pop_front()`.
DMPop ==
    /\ dpc = "search"
    /\ queue /= <<>>
    /\ LET r == VisitNeighbors(distances, Tail(queue), Head(queue)[1], Head(queue)[2], 1)
       IN /\ distances' = r.distances
          /\ queue' = r.queue
    /\ UNCHANGED <<goals, blocked, dpc, step>>
    /\ UNCHANGED dsVars
    /\ UNCHANGED viVars
    /\ UNCHANGED geVars
    /\ UNCHANGED restVars

\* DijkstraMap::new returns once the queue is empty.
DMFinish ==
    /\ dpc = "search"
    /\ queue = <<>>
    /\ dpc' = "done"
    /\ UNCHANGED <<goals, blocked, distances, queue, step>>
    /\ UNCHANGED dsVars
    /\ UNCHANGED viVars
    /\ UNCHANGED geVars
    /\ UNCHANGED restVars

\* The start value of best_distance in DijkstraMap::step: the distance of
\* `coords`, or isize::MAX (isize::MIN when reversed) when it has none. The
\* two extremes are kept symbolic.
InitialBest(dist, coords, reverse) ==
    IF HasDistance(dist, coords) THEN [k |-> "fin", v |-> dist[coords]]
    ELSE IF reverse THEN [k |-> "min", v |-> 0]
    ELSE [k |-> "max", v |-> 0]

\* distance.cmp(&best_distance)
Cmp(distance, best) ==
    IF best.k = "max" THEN "Less"
    ELSE IF best.k = "min" THEN "Greater"
    ELSE IF distance < best.v THEN "Less"
    ELSE IF distance = best.v THEN "Equal"
    ELSE "Greater"

\* The Equal arm of the match in DijkstraMap::step, dropping the tie.
PushTieDropped(best_offsets, offset) == best_offsets

\* The Equal arm of the match in DijkstraMap::step: best_offsets.push(offset).
PushTie(best_offsets, offset) == Append(best_offsets, offset)

\* The loop of DijkstraMap::step over the offsets `offs`, from the k-th on:
\* the best_offsets vector at its end.
RECURSIVE StepScan(_, _, _, _, _, _, _)
StepScan(dist, coords, reverse, offs, k, best, best_offsets) ==
    IF k > Len(offs) THEN best_offsets
    ELSE LET offset == offs[k]
             n == PointAdd(coords, offset)
         IN IF ~HasDistance(dist, n)
            THEN StepScan(dist, coords, reverse, offs, k + 1, best, best_offsets)
            ELSE LET c == Cmp(dist[n], best)
                     take == [k |-> "fin", v |-> dist[n]]
                 IN IF c = "Less"
                    THEN IF ~reverse
                         THEN StepScan(dist, coords, reverse, offs, k + 1, take, <<offset>>)
                         ELSE StepScan(dist, coords, reverse, offs, k + 1, best, best_offsets)
                    ELSE IF c = "Equal"
                    THEN StepScan(dist, coords, reverse, offs, k + 1, best,
                                  PushTie(best_offsets, offset))
                    ELSE IF reverse
                         THEN StepScan(dist, coords, reverse, offs, k + 1, take, <<offset>>)
                         ELSE StepScan(dist, coords, reverse, offs, k + 1, best, best_offsets)

\* best_offsets of DijkstraMap::step when the offsets are examined in the
\* order `offs`.
BestOffsetsIn(offs, dist, coords, reverse) ==
    StepScan(dist, coords, reverse, offs, 1, InitialBest(dist, coords, reverse), <<>>)

\* A step that falls back on all four offsets when no neighbour qualifies.
BestOffsetsOrAny(dist, coords, reverse) ==
    LET b == BestOffsetsIn(NEIGHBOR_OFFSETS_FOUR, dist, coords, reverse)
    IN IF b = <<>> THEN NEIGHBOR_OFFSETS_FOUR ELSE b

\* best_offsets of DijkstraMap::step.
BestOffsets(dist, coords, reverse) ==
    BestOffsetsIn(NEIGHBOR_OFFSETS_FOUR, dist, coords, reverse)

\* DijkstraMap::step_towards / step_away on the finished map: the result is
\* None (the empty sequence) or Some(offset) for any offset that
\* best_offsets.into_iter().choose(rng) can draw. A query only reads the
\* map, so a query made after another has the results it would have had as
\* the first one: the model records the first query on each map.
DMStep(coords, reverse) ==
    /\ dpc = "done"
    /\ step = NoStep
    /\ LET best_offsets == BestOffsets(distances, coords, reverse)
           op == IF reverse THEN "away" ELSE "towards"
       IN IF best_offsets = <<>>
          THEN step' = [op |-> op, coords |-> coords, ret |-> <<>>]
          ELSE \E k \in DOMAIN best_offsets :
                  step' = [op |-> op, coords |-> coords, ret |-> <<best_offsets[k]>>]
    /\ UNCHANGED <<goals, blocked, distances, queue, dpc>>
    /\ UNCHANGED dsVars
    /\ UNCHANGED viVars
    /\ UNCHANGED geVars
    /\ UNCHANGED restVars

DMNext ==
    \/ DMSeed
    \/ DMPop
    \/ DMFinish
    \/ \E coords \in DUniverse, reverse \in BOOLEAN : DMStep(coords, reverse)

SpecDM == DMInit /\ [][DMNext]_vars

\* DijkstraMap::new alone.
DMNewNext == DMSeed \/ DMPop \/ DMFinish

SpecDMNew == DMInit /\ [][DMNewNext]_vars

\* The 4-directional neighbours of p, by their coordinates.
Adjacent(p, q) == Abs(p[1] - q[1]) + Abs(p[2] - q[2]) = 1

\* The true distance to the nearest goal, for every point that has one: the
\* points at distance k + 1 are the non-blocking points next to a point at
\* distance k that are at no smaller distance.
RECURSIVE TrueDistFrom(_, _, _)
TrueDistFrom(found, frontier, k) ==
    LET next == {q \in DUniverse \ DOMAIN found :
                    ~is_blocking(q) /\ \E r \in frontier : Adjacent(r, q)}
    IN IF next = {} THEN found
       ELSE TrueDistFrom([q \in next |-> k + 1] @@ found, next, k + 1)

TrueDist ==
    LET seeds == {p \in DTiles : is_goal(p)}
    IN TrueDistFrom([p \in seeds |-> 0], seeds, 0)

\* C4: every distance the map records is the true shortest-path distance to
\* the nearest goal tile.
C4_DistanceIsShortest ==
    dpc \in {"search", "done"} =>
        LET td == TrueDist
        IN \A p \in DOMAIN distances : p \in DOMAIN td /\ distances[p] = td[p]

\* C4 witness: a finished map in which a point lies farther from the goal
\* than its Manhattan distance, because a blocking point is in the way.
C4_Witness ==
    /\ dpc = "done"
    /\ \E g \in goals, p \in DOMAIN distances :
          /\ goals = {g}
          /\ blocked /= {}
          /\ distances[p] > Abs(p[1] - g[1]) + Abs(p[2] - g[2])

\* The offsets from p to its neighbours that have a recorded distance.
RecordedOffsets(p) ==
    {o \in {TILE_UP, TILE_DOWN, TILE_LEFT, TILE_RIGHT} :
        HasDistance(distances, PointAdd(p, o))}

\* The offsets from p to the neighbours whose recorded distance is the
\* smallest among p's neighbours.
MinOffsets(p) ==
    {o \in RecordedOffsets(p) :
        \A o2 \in RecordedOffsets(p) :
            distances[PointAdd(p, o)] <= distances[PointAdd(p, o2)]}

\* Some neighbour of p is closer to a goal than p, or p has no distance and
\* some neighbour has one.
HasCloserNeighbor(p) ==
    IF HasDistance(distances, p)
    THEN \E o \in RecordedOffsets(p) : distances[PointAdd(p, o)] < distances[p]
    ELSE RecordedOffsets(p) /= {}

\* C7: step_towards returns None whenever no neighbour has a recorded
\* distance strictly smaller than p's own and, when p has no recorded
\* distance, whenever no neighbour has one.
C7_NoneWhenNoCloserNeighbor ==
    (step.op = "towards" /\ ~HasCloserNeighbor(step.coords)) => step.ret = <<>>

\* C8: when some neighbour of p is closer than p (or p has no distance and a
\* neighbour has one), step_towards returns an offset to a neighbour of
\* smallest distance, the offsets it chooses among are exactly the offsets
\* to those neighbours, each listed once, and they are the same set in
\* whatever order the four offsets are examined.
C8_StepTowardsChoosesAmongMin ==
    (step.op = "towards" /\ HasCloserNeighbor(step.coords)) =>
        /\ step.ret /= <<>>
        /\ step.ret[1] \in MinOffsets(step.coords)
        /\ \A offs \in Orders(Range(NEIGHBOR_OFFSETS_FOUR)) :
              LET b == BestOffsetsIn(offs, distances, step.coords, FALSE)
              IN /\ Range(b) = MinOffsets(step.coords)
                 /\ Len(b) = Cardinality(MinOffsets(step.coords))

\* C8 witness: two neighbours tie at the smallest distance, below p's own,
\* and step_towards returned the one that was examined second.
C8_Witness ==
    /\ step.op = "towards"
    /\ HasDistance(distances, step.coords)
    /\ HasCloserNeighbor(step.coords)
    /\ Cardinality(MinOffsets(step.coords)) = 2
    /\ step.ret = <<BestOffsets(distances, step.coords, FALSE)[2]>>

\* C9: when step_away returns Some(offset) for a point with a recorded
\* distance, the neighbour at that offset has a recorded distance strictly
\* larger than p's own, the largest among p's neighbours.
C9_StepAwayStrictlyFarther ==
    (step.op = "away" /\ step.ret /= <<>> /\ HasDistance(distances, step.coords)) =>
        LET p == step.coords
            t == PointAdd(p, step.ret[1])
        IN /\ HasDistance(distances, t)
           /\ distances[t] > distances[p]
           /\ \A o \in RecordedOffsets(p) : distances[PointAdd(p, o)] <= distances[t]

\* C28: every offset step_towards or step_away returns is one of the four
\* unit offsets and leads to a point with a recorded distance in the same
\* map, so that map.distance(target) of Creature::act is Some(_) and its
\* unwrap does not fail, wherever the creature stands.
C28_StepLeadsToRecordedPoint ==
    step.ret /= <<>> =>
        LET offset == step.ret[1]
            target == PointAdd(step.coords, offset)
        IN /\ Abs(offset[1]) + Abs(offset[2]) = 1
           /\ DijkstraDistance(distances, target) /= <<>>
           /\ target \in DOMAIN distances

\* C28 witness: a creature on a point without a recorded distance steps
\* away, another neighbour of the point having no recorded distance either,
\* and the step leads to the farthest of the recorded neighbours.
C28_Witness ==
    /\ step.op = "away"
    /\ step.ret /= <<>>
    /\ ~HasDistance(distances, step.coords)
    /\ \E o \in Range(NEIGHBOR_OFFSETS_FOUR) :
          ~HasDistance(distances, PointAdd(step.coords, o))
    /\ Cardinality(RecordedOffsets(step.coords)) >= 2
    /\ HasDistance(distances, PointAdd(step.coords, step.ret[1]))

C15_NeighborOneCloser ==
    dpc \in {"search", "done"} =>
        \A p \in DOMAIN distances :
            distances[p] > 0 =>
                \E k \in DOMAIN NEIGHBOR_OFFSETS_FOUR :
                    LET n == PointAdd(p, NEIGHBOR_OFFSETS_FOUR[k])
                    IN DijkstraDistance(distances, n) = <<distances[p] - 1>>

\* C15 witness: a finished map with a point at distance 3 or more, reached
\* around a blocking point.
C15_Witness ==
    /\ dpc = "done"
    /\ blocked /= {}
    /\ \E p \in DOMAIN distances : distances[p] >= 3

\* The points the claim names: the goal tiles, and the non-blocking points
\* joined to one of them by a path of non-blocking points.
RECURSIVE ReachedFrom(_)
ReachedFrom(S) ==
    LET more == S \cup {q \in DUniverse : ~is_blocking(q) /\ \E r \in S : Adjacent(r, q)}
    IN IF more = S THEN S ELSE ReachedFrom(more)

Reached == ReachedFrom({p \in DTiles : is_goal(p)})

\* The grid and the points around it.
DWindow == (-1 .. DWidth) \X (-1 .. DHeight)

\* C16: in a finished map distance(p) is Some exactly for the goal tiles and
\* the non-blocking points connected to one, and None for every other point.
C16_DistanceSomeIffReached ==
    dpc = "done" =>
        \A p \in DWindow :
            (DijkstraDistance(distances, p) /= <<>>) <=> (p \in Reached)

\* C16 witness: a finished map that records a point that is not a tile and a
\* goal that is not a tile at its distance from the goal tile, not at 0, and
\* leaves out the blocking point next to recorded points.
C16_Witness ==
    /\ dpc = "done"
    /\ \E p \in goals : p \notin DTiles /\ DijkstraDistance(distances, p) = <<2>>
    /\ \E p \in blocked, q \in DOMAIN distances :
          DijkstraDistance(distances, p) = <<>> /\ Adjacent(p, q)

----------------------------------------------------------------------------
(* vision.rs: get_vision *)

\* The tiles that may be floor are a room of room[1] x room[2] tiles; every
\* tile outside it is blocking, as it is for Level::update_vision, which takes
\* every tile that is not a Floor of the terrain as blocking.
\* The room that may have blocking tiles inside it is RoomWidth x RoomHeight.
RoomWidth == 4
RoomHeight == 3
\* At most this many blocking tiles inside the room.
MaxWalls == 1
\* A room without blocking tiles inside it has sides of 1 .. OpenRoomSide.
OpenRoomSide == 5

Room == (0 .. (room[1] - 1)) \X (0 .. (room[2] - 1))

\* The is_blocking handed to get_vision, for the blocking tiles `w` of the
\* room: it holds for them and outside the room, as the one
\* Level::update_vision hands does.
Blocking(w, p) == p \notin Room \/ p \in w

\* Rational32 values are pairs <<numerator, denominator>>, denominator > 0.
RatLe(a, b) == a[1] * b[2] <= b[1] * a[2]
\* Rational32 * i32
RatMul(a, n) == <<a[1] * n, a[2]>>

\* Rounds [x, x + 0.5) to x and [x + 0.5, x + 1) to x + 1:
\* (n + 1/2).floor()
round_ties_up(n) == (2 * n[1] + n[2]) \div (2 * n[2])

\* Rounds [x, x + 0.5] to x and (x + 0.5, x + 1) to x + 1:
\* (n - 1/2).ceil()
round_ties_down(n) == -((n[2] - 2 * n[1]) \div (2 * n[2]))

Quadrants == <<"North", "South", "East", "West">>

\* Quadrant::transform
transform(quadrant, o, coords) ==
    IF quadrant = "North" THEN <<o[1] - coords.column, o[2] - coords.distance>>
    ELSE IF quadrant = "South" THEN <<o[1] + coords.column, o[2] + coords.distance>>
    ELSE IF quadrant = "East" THEN <<o[1] + coords.distance, o[2] - coords.column>>
    ELSE <<o[1] - coords.distance, o[2] + coords.column>>

\* The slope to the center of the tile rather than to its far tangent.
wall_center_slope(coords) == <<2 * coords.column, 2 * coords.distance>>

\* QuadrantPoint::wall_tangent_slope
wall_tangent_slope(coords) == <<2 * coords.column - 1, 2 * coords.distance>>

\* A row section that holds the centers strictly inside it only.
contains_center_exclusive(row, coords) ==
    /\ ~RatLe(<<coords.column, 1>>, RatMul(row.start_slope, row.distance))
    /\ ~RatLe(RatMul(row.end_slope, row.distance), <<coords.column, 1>>)

\* A row section that takes every tile of the row as holding its center.
contains_center_always(row, coords) == TRUE

\* QuadrantRow::contains_center
contains_center(row, coords) ==
    /\ RatLe(RatMul(row.start_slope, row.distance), <<coords.column, 1>>)
    /\ RatLe(<<coords.column, 1>>, RatMul(row.end_slope, row.distance))

\* The closures is_wall and is_floor of get_vision; `tile` is an
\* Option<QuadrantPoint>: <<>> or <<coords>>.
is_wall(w, quadrant, o, tile) ==
    tile /= <<>> /\ Blocking(w, transform(quadrant, o, tile[1]))
is_floor(w, quadrant, o, tile) ==
    tile /= <<>> /\ ~Blocking(w, transform(quadrant, o, tile[1]))

\* A reveal test that leaves out the walls: only tiles that hold their
\* center in the row section are revealed.
reveals_centers_only(w, quadrant, o, row, coords) == contains_center(row, coords)

\* The test that reveals a tile: walls unconditionally, non-walls if they
\* have symmetric vision with the origin.
reveals(w, quadrant, o, row, coords) ==
    is_wall(w, quadrant, o, <<coords>>) \/ contains_center(row, coords)

\* The state of the loop over the columns of a row section: the row section
\* (`row` is mut), the next column, the last column, prev_tile, and with
\* them the vision set and the queue the loop writes to.
LoopState(row, vis, pushed) ==
    [row |-> row,
     column |-> round_ties_up(RatMul(row.start_slope, row.distance)),
     max_column |-> round_ties_down(RatMul(row.end_slope, row.distance)),
     prev_tile |-> <<>>,
     vision |-> vis,
     pushed |-> pushed]

\* One iteration of the `for column in min_column..=max_column` loop of
\* get_vision, on the state of the loop.
ScanColumn(w, quadrant, o, st) ==
    LET row == st.row
        coords == [distance |-> row.distance, column |-> st.column]
        tile == <<coords>>
    IN [row |-> IF is_wall(w, quadrant, o, st.prev_tile) /\ is_floor(w, quadrant, o, tile)
                THEN [row EXCEPT !.start_slope = wall_tangent_slope(coords)]
                ELSE row,
        column |-> st.column + 1,
        max_column |-> st.max_column,
        prev_tile |-> tile,
        vision |-> IF reveals(w, quadrant, o, row, coords)
                   THEN st.vision \cup {transform(quadrant, o, coords)}
                   ELSE st.vision,
        pushed |-> IF is_floor(w, quadrant, o, st.prev_tile) /\ is_wall(w, quadrant, o, tile)
                   THEN Append(st.pushed,
                               [row EXCEPT !.distance = row.distance + 1,
                                           !.end_slope = wall_tangent_slope(coords)])
                   ELSE st.pushed]

\* The push that follows the loop over the columns of a row section.
ScanRowEnd(w, quadrant, o, st) ==
    IF is_floor(w, quadrant, o, st.prev_tile)
    THEN Append(st.pushed, [st.row EXCEPT !.distance = st.row.distance + 1])
    ELSE st.pushed

\* The `for column in min_column..=max_column` loop of get_vision from the
\* state `st` on, and the push that follows it: the vision set and the row
\* sections pushed, in the order they are pushed.
RECURSIVE ScanRow(_, _, _, _)
ScanRow(w, quadrant, o, st) ==
    IF st.column > st.max_column
    THEN [vision |-> st.vision, pushed |-> ScanRowEnd(w, quadrant, o, st)]
    ELSE ScanRow(w, quadrant, o, ScanColumn(w, quadrant, o, st))

\* The `while let Some(mut row) = queue.pop()` loop of get_vision: `stack` is
\* the Vec named queue, popped and pushed at its end.
RECURSIVE ProcessRows(_, _, _, _, _)
ProcessRows(w, quadrant, o, stack, vis) ==
    IF stack = <<>> THEN vis
    ELSE LET row == stack[Len(stack)]
             rest == SubSeq(stack, 1, Len(stack) - 1)
             r == ScanRow(w, quadrant, o, LoopState(row, vis, rest))
         IN ProcessRows(w, quadrant, o, r.pushed, r.vision)

\* The first row section of a quadrant: the entire arc of the first row.
FirstRow == [distance |-> 1, start_slope |-> <<-1, 1>>, end_slope |-> <<1, 1>>]

\* The loop of get_vision over the quadrants, from the k-th on.
RECURSIVE ScanQuadrants(_, _, _, _)
ScanQuadrants(w, o, k, vis) ==
    IF k > Len(Quadrants) THEN vis
    ELSE ScanQuadrants(w, o, k + 1, ProcessRows(w, Quadrants[k], o, <<FirstRow>>, vis))

\* get_vision(origin, is_blocking), for the blocking tiles `w` of the room.
get_vision(o, w) == ScanQuadrants(w, o, 1, {o})

VIInit ==
    /\ \/ /\ room = <<RoomWidth, RoomHeight>>
          /\ walls \in SubsetsUpTo(Room, MaxWalls)
       \/ /\ room \in (1 .. OpenRoomSide) \X (1 .. OpenRoomSide)
          /\ walls = {}
    /\ origin = <<>>
    /\ vision = {}
    /\ vquadrant = 0
    /\ vqueue = <<>>
    /\ vscan = <<>>
    /\ vseen = {}
    /\ vpc = "idle"
    /\ DSIdle
    /\ DMIdle
    /\ GEIdle
    /\ RestIdle

\* Level::update_vision: the vision from the viewer's tile, a floor tile.
VILook(o) ==
    /\ ~Blocking(walls, o)
    /\ origin' = o
    /\ vision' = get_vision(o, walls)
    /\ UNCHANGED <<room, walls, vquadrant, vqueue, vscan, vseen, vpc>>
    /\ UNCHANGED dsVars
    /\ UNCHANGED dmVars
    /\ UNCHANGED geVars
    /\ UNCHANGED restVars

VINext == \E o \in Room : VILook(o)

SpecVI == VIInit /\ [][VINext]_vars

\* C3: between two distinct floor tiles visibility is symmetric: a floor
\* tile B is in the vision from the origin exactly when the origin is in the
\* vision from B.
C3_VisionSymmetric ==
    origin /= <<>> =>
        \A b \in Room \ (walls \cup {origin}) :
            (b \in vision) <=> (origin \in get_vision(b, walls))

\* Tiles next to each other by an edge, and by an edge or a corner.
EdgeAdjacent(p, q) == Abs(p[1] - q[1]) + Abs(p[2] - q[2]) = 1
Touching(p, q) == p /= q /\ Abs(p[1] - q[1]) <= 1 /\ Abs(p[2] - q[2]) <= 1

\* The room and the ring of blocking tiles around it.
RoomAndRing == (-1 .. room[1]) \X (-1 .. room[2])

\* C10: every blocking tile next to a non-blocking tile of the vision is in
\* the vision, for every origin and every set of blocking tiles.
C10_WallNextToVisibleFloorVisible ==
    \A f \in vision : ~Blocking(walls, f) =>
        \A q \in RoomAndRing :
            (EdgeAdjacent(f, q) /\ Blocking(walls, q)) => q \in vision

\* C10 as amended: in a room without blocking tiles inside it, every blocking
\* tile next to a non-blocking tile of the vision, by an edge or a corner, is
\* in the vision.
C10_WallNextToVisibleFloorVisibleInOpenRoom ==
    walls = {} =>
        \A f \in vision : ~Blocking(walls, f) =>
            \A q \in RoomAndRing :
                (Touching(f, q) /\ Blocking(walls, q)) => q \in vision

\* C10 witness: from a corner of the open room the floor tile of the far
\* corner is visible, and so is the ring's corner tile that touches it.
C10_Witness ==
    /\ room = <<RoomWidth, RoomHeight>>
    /\ walls = {}
    /\ origin = <<0, 0>>
    /\ <<RoomWidth - 1, RoomHeight - 1>> \in vision
    /\ <<RoomWidth, RoomHeight>> \in vision

\* C3 witness: a pillar hides a floor tile from the origin, and the origin
\* from that tile, while other floor tiles behind the pillar's row are seen.
C3_Witness ==
    /\ room = <<RoomWidth, RoomHeight>>
    /\ origin /= <<>>
    /\ walls /= {}
    /\ \E b \in Room \ (walls \cup {origin}) :
          /\ b \notin vision
          /\ origin \notin get_vision(b, walls)
    /\ \E b \in Room \ (walls \cup {origin}) :
          /\ b \in vision
          /\ origin \in get_vision(b, walls)
          /\ Abs(b[1] - origin[1]) >= 2
          /\ Abs(b[2] - origin[2]) >= 1

\* C11: in a room without blocking tiles inside it, the vision from any floor
\* tile contains every tile of the ring of blocking tiles around the room,
\* the four corner tiles of the ring included.
C11_OpenRoomRingVisible ==
    (walls = {} /\ origin /= <<>>) => (RoomAndRing \ Room) \subseteq vision

\* C11 witness: from a tile away from the walls of the largest open room, a
\* room that is not a square, the four corners of the ring are in the vision.
C11_Witness ==
    /\ walls = {}
    /\ room = <<OpenRoomSide, OpenRoomSide - 1>>
    /\ origin = <<1, 2>>
    /\ {<<-1, -1>>, <<room[1], -1>>, <<-1, room[2]>>, <<room[1], room[2]>>}
          \subseteq vision

\* C20: in a room without blocking tiles inside it, the vision from any floor
\* tile contains every floor tile of the room.
C20_OpenRoomFloorVisible ==
    (walls = {} /\ origin /= <<>>) => Room \subseteq vision

\* C20 witness: the 5x5 open room seen from its center tile: all 25 floor
\* tiles are in the vision.
C20_Witness ==
    /\ walls = {}
    /\ room = <<5, 5>>
    /\ origin = <<2, 2>>
    /\ Cardinality(vision \cap Room) = 25

----------------------------------------------------------------------------
(* vision.rs: get_vision, one row section at a time *)

\* No row section is being scanned.
NoScan == <<>>

\* The inputs: the room with its blocking tiles.
VSInit ==
    /\ room = <<RoomWidth, RoomHeight>>
    /\ walls \in SubsetsUpTo(Room, MaxWalls)
    /\ origin = <<>>
    /\ vision = {}
    /\ vquadrant = 0
    /\ vqueue = <<>>
    /\ vscan = NoScan
    /\ vseen = {}
    /\ vpc = "idle"
    /\ DSIdle
    /\ DMIdle
    /\ GEIdle
    /\ RestIdle

\* The call get_vision(o, is_blocking) up to the first quadrant's queue.
VSCall(o) ==
    /\ vpc = "idle"
    /\ ~Blocking(walls, o)
    /\ origin' = o
    /\ vseen' = {o}
    /\ vquadrant' = 1
    /\ vqueue' = <<FirstRow>>
    /\ vpc' = "scan"
    /\ UNCHANGED <<room, walls, vision, vscan>>
    /\ UNCHANGED dsVars
    /\ UNCHANGED dmVars
    /\ UNCHANGED geVars
    /\ UNCHANGED restVars

\* `while let Some(mut row) = queue.pop()`: the row section popped, with the
\* first and the last column of its loop.
VSPop ==
    /\ vpc = "scan"
    /\ vscan = NoScan
    /\ vqueue /= <<>>
    /\ LET rest == SubSeq(vqueue, 1, Len(vqueue) - 1)
       IN /\ vscan' = <<LoopState(vqueue[Len(vqueue)], vseen, rest)>>
          /\ vqueue' = rest
    /\ UNCHANGED <<room, walls, origin, vision, vquadrant, vseen, vpc>>
    /\ UNCHANGED dsVars
    /\ UNCHANGED dmVars
    /\ UNCHANGED geVars
    /\ UNCHANGED restVars

\* One iteration of the loop over the columns of the row section.
VSColumn ==
    /\ vpc = "scan"
    /\ vscan /= NoScan
    /\ vscan[1].column <= vscan[1].max_column
    /\ LET st == ScanColumn(walls, Quadrants[vquadrant], origin, vscan[1])
       IN /\ vscan' = <<st>>
          /\ vseen' = st.vision
          /\ vqueue' = st.pushed
    /\ UNCHANGED <<room, walls, origin, vision, vquadrant, vpc>>
    /\ UNCHANGED dsVars
    /\ UNCHANGED dmVars
    /\ UNCHANGED geVars
    /\ UNCHANGED restVars

\* The end of the loop over the columns, and the push that follows it.
VSRowEnd ==
    /\ vpc = "scan"
    /\ vscan /= NoScan
    /\ vscan[1].column > vscan[1].max_column
    /\ vqueue' = ScanRowEnd(walls, Quadrants[vquadrant], origin, vscan[1])
    /\ vscan' = NoScan
    /\ UNCHANGED <<room, walls, origin, vision, vquadrant, vseen, vpc>>
    /\ UNCHANGED dsVars
    /\ UNCHANGED dmVars
    /\ UNCHANGED geVars
    /\ UNCHANGED restVars

\* The queue of a quadrant is empty: the `for quadrant` loop goes on to the
\* next quadrant.
VSQuadrant ==
    /\ vpc = "scan"
    /\ vscan = NoScan
    /\ vqueue = <<>>
    /\ vquadrant < Len(Quadrants)
    /\ vquadrant' = vquadrant + 1
    /\ vqueue' = <<FirstRow>>
    /\ UNCHANGED <<room, walls, origin, vision, vscan, vseen, vpc>>
    /\ UNCHANGED dsVars
    /\ UNCHANGED dmVars
    /\ UNCHANGED geVars
    /\ UNCHANGED restVars

\* The queue of the last quadrant is empty: get_vision returns `vision`.
VSReturn ==
    /\ vpc = "scan"
    /\ vscan = NoScan
    /\ vqueue = <<>>
    /\ vquadrant = Len(Quadrants)
    /\ vision' = vseen
    /\ vpc' = "done"
    /\ UNCHANGED <<room, walls, origin, vquadrant, vqueue, vscan, vseen>>
    /\ UNCHANGED dsVars
    /\ UNCHANGED dmVars
    /\ UNCHANGED geVars
    /\ UNCHANGED restVars

VSNext ==
    \/ \E o \in Room : VSCall(o)
    \/ VSPop
    \/ VSColumn
    \/ VSRowEnd
    \/ VSQuadrant
    \/ VSReturn

SpecVS == VSInit /\ [][VSNext]_vars

----------------------------------------------------------------------------
(* geometry.rs: rectangles.  A rectangle is [pos |-> <<x, y>>,
   size |-> <<w, h>>]; an intersection is [kind |-> ..., rect |-> ...]. *)

TILE_UP_LEFT == <<-1, -1>>
TILE_UP_RIGHT == <<1, -1>>
TILE_DOWN_LEFT == <<-1, 1>>
TILE_DOWN_RIGHT == <<1, 1>>

\* The offsets random_neighbor_eight chooses from.
NEIGHBOR_OFFSETS_EIGHT ==
    <<TILE_UP, TILE_DOWN, TILE_LEFT, TILE_RIGHT,
      TILE_UP_LEFT, TILE_UP_RIGHT, TILE_DOWN_LEFT, TILE_DOWN_RIGHT>>

Rect(px, py, sx, sy) == [pos |-> <<px, py>>, size |-> <<sx, sy>>]

\* The distance along the longer side of the gap only.
distance_longer_side(i) ==
    CASE i.kind = "Real" -> 0
      [] i.kind = "Horizontal" -> i.rect.size[2]
      [] i.kind = "Vertical" -> i.rect.size[1]
      [] i.kind = "None" -> Max(i.rect.size[1], i.rect.size[2])

\* RectangleIntersection::distance
distance(i) ==
    CASE i.kind = "Real" -> 0
      [] i.kind = "Horizontal" -> i.rect.size[2]
      [] i.kind = "Vertical" -> i.rect.size[1]
      [] i.kind = "None" -> i.rect.size[1] + i.rect.size[2]

\* An intersection whose gap rectangles start where the farther rectangle
\* starts, not where the nearer one ends.
intersection_gap_from_start(self, other) ==
    LET start_x == Max(self.pos[1], other.pos[1])
        start_y == Max(self.pos[2], other.pos[2])
        end_x == Min(self.pos[1] + self.size[1], other.pos[1] + other.size[1])
        end_y == Min(self.pos[2] + self.size[2], other.pos[2] + other.size[2])
    IN CASE start_x < end_x /\ start_y < end_y ->
              [kind |-> "Real",
               rect |-> Rect(start_x, start_y, end_x - start_x, end_y - start_y)]
         [] start_x < end_x /\ ~(start_y < end_y) ->
              [kind |-> "Horizontal",
               rect |-> Rect(start_x, start_y, end_x - start_x, start_y - end_y)]
         [] ~(start_x < end_x) /\ start_y < end_y ->
              [kind |-> "Vertical",
               rect |-> Rect(start_x, start_y, start_x - end_x, end_y - start_y)]
         [] ~(start_x < end_x) /\ ~(start_y < end_y) ->
              [kind |-> "None",
               rect |-> Rect(start_x, start_y, start_x - end_x, start_y - end_y)]

\* Rectangle::intersection
intersection(self, other) ==
    LET start_x == Max(self.pos[1], other.pos[1])
        start_y == Max(self.pos[2], other.pos[2])
        end_x == Min(self.pos[1] + self.size[1], other.pos[1] + other.size[1])
        end_y == Min(self.pos[2] + self.size[2], other.pos[2] + other.size[2])
    IN CASE start_x < end_x /\ start_y < end_y ->
              [kind |-> "Real",
               rect |-> Rect(start_x, start_y, end_x - start_x, end_y - start_y)]
         [] start_x < end_x /\ ~(start_y < end_y) ->
              [kind |-> "Horizontal",
               rect |-> Rect(start_x, end_y, end_x - start_x, start_y - end_y)]
         [] ~(start_x < end_x) /\ start_y < end_y ->
              [kind |-> "Vertical",
               rect |-> Rect(end_x, start_y, start_x - end_x, end_y - start_y)]
         [] ~(start_x < end_x) /\ ~(start_y < end_y) ->
              [kind |-> "None",
               rect |-> Rect(end_x, end_y, start_x - end_x, start_y - end_y)]

\* touching with strict comparisons: overlapping only, adjacency missed.
touching_overlap_only(self, other) ==
    LET start_x == Max(self.pos[1], other.pos[1])
        start_y == Max(self.pos[2], other.pos[2])
        end_x == Min(self.pos[1] + self.size[1], other.pos[1] + other.size[1])
        end_y == Min(self.pos[2] + self.size[2], other.pos[2] + other.size[2])
    IN start_x < end_x /\ start_y < end_y

\* Rectangle::touching
touching(self, other) ==
    LET start_x == Max(self.pos[1], other.pos[1])
        start_y == Max(self.pos[2], other.pos[2])
        end_x == Min(self.pos[1] + self.size[1], other.pos[1] + other.size[1])
        end_y == Min(self.pos[2] + self.size[2], other.pos[2] + other.size[2])
    IN start_x <= end_x /\ start_y <= end_y

\* Rectangle::area
area(self) == self.size[1] * self.size[2]

\* The rectangles handed to intersection and touching have their corner in
\* 0 .. RectSpan and sides of 0 .. RectSide on each axis.
RectSpan == 3
RectSide == 2

Rects ==
    {Rect(px, py, sx, sy) : px \in 0 .. RectSpan, py \in 0 .. RectSpan,
                            sx \in 0 .. RectSide, sy \in 0 .. RectSide}

RIInit ==
    /\ rself \in Rects
    /\ rother \in Rects
    /\ rresult = <<>>
    /\ DSIdle
    /\ DMIdle
    /\ VIIdle
    /\ GEIdle
    /\ LaterIdle

\* The calls self.intersection(other) and self.touching(other).
RICall ==
    /\ rresult = <<>>
    /\ rresult' = <<[intersection |-> intersection(rself, rother),
                     touching |-> touching(rself, rother)]>>
    /\ UNCHANGED <<rself, rother>>
    /\ UNCHANGED dsVars
    /\ UNCHANGED dmVars
    /\ UNCHANGED viVars
    /\ UNCHANGED geVars
    /\ UNCHANGED laterVars

RINext == RICall

SpecRI == RIInit /\ [][RINext]_vars

\* The half-open extent [pos, pos + size) of a rectangle on axis k, as the
\* set of its columns (k = 1) or rows (k = 2).
Extent(r, k) == r.pos[k] .. (r.pos[k] + r.size[k] - 1)

\* The columns or rows that lie between two rectangles on axis k: after the
\* end of the one that comes first and before the start of the other.
Between(a, b, k) ==
    IF a.pos[k] + a.size[k] <= b.pos[k]
    THEN (a.pos[k] + a.size[k]) .. (b.pos[k] - 1)
    ELSE IF b.pos[k] + b.size[k] <= a.pos[k]
         THEN (b.pos[k] + b.size[k]) .. (a.pos[k] - 1)
         ELSE {}

Overlap(a, b, k) == Extent(a, k) \cap Extent(b, k) /= {}

\* The rectangle g covers exactly the columns X and the rows Y.
Covers(g, X, Y) ==
    /\ g.size[1] >= 0
    /\ g.size[2] >= 0
    /\ Extent(g, 1) = X
    /\ Extent(g, 2) = Y

\* C21: intersection classifies every pair of rectangles: Real with the
\* overlapping rectangle iff both extents overlap, Horizontal with the shared
\* columns and the rows between iff only the x-extents overlap, Vertical with
\* the columns between and the shared rows iff only the y-extents overlap,
\* None with the columns and rows between iff neither overlaps; the
\* rectangle returned never has a negative width or height.
C21_IntersectionClassifies ==
    rresult /= <<>> =>
        LET i == rresult[1].intersection
            a == rself
            b == rother
            ox == Overlap(a, b, 1)
            oy == Overlap(a, b, 2)
            sharedX == Extent(a, 1) \cap Extent(b, 1)
            sharedY == Extent(a, 2) \cap Extent(b, 2)
        IN /\ i.kind \in {"Real", "Horizontal", "Vertical", "None"}
           /\ (i.kind = "Real") <=> (ox /\ oy)
           /\ (i.kind = "Horizontal") <=> (ox /\ ~oy)
           /\ (i.kind = "Vertical") <=> (~ox /\ oy)
           /\ (i.kind = "None") <=> (~ox /\ ~oy)
           /\ i.kind = "Real" => Covers(i.rect, sharedX, sharedY)
           /\ i.kind = "Horizontal" => Covers(i.rect, sharedX, Between(a, b, 2))
           /\ i.kind = "Vertical" => Covers(i.rect, Between(a, b, 1), sharedY)
           /\ i.kind = "None" => Covers(i.rect, Between(a, b, 1), Between(a, b, 2))
           /\ (i.kind = "None" /\ a.size[1] > 0 /\ a.size[2] > 0
                 /\ b.size[1] > 0 /\ b.size[2] > 0) =>
                 \* between the nearest corners: it starts where the nearer
                 \* rectangle ends on each axis
                 /\ i.rect.pos[1] = Min(a.pos[1] + a.size[1], b.pos[1] + b.size[1])
                 /\ i.rect.pos[2] = Min(a.pos[2] + a.size[2], b.pos[2] + b.size[2])

\* C21 witness: two rectangles that overlap on neither axis: None, with the
\* gap of one column and two rows between their nearest corners.
C21_Witness ==
    /\ rself = Rect(0, 0, 1, 1)
    /\ rother = Rect(2, 3, 1, 2)
    /\ rresult /= <<>>
    /\ rresult[1].intersection = [kind |-> "None", rect |-> Rect(1, 1, 1, 2)]

\* The gap between two rectangles on axis k: the columns or rows between
\* them if their extents do not overlap, none if they do.
Gap(a, b, k) == IF Overlap(a, b, k) THEN 0 ELSE Cardinality(Between(a, b, k))

\* The closed extents [pos, pos + size] of two rectangles meet on both axes:
\* the rectangles overlap, share an edge or share a corner.
Meet(a, b) ==
    \A k \in {1, 2} :
        (a.pos[k] .. (a.pos[k] + a.size[k])) \cap (b.pos[k] .. (b.pos[k] + b.size[k])) /= {}

\* C22: for rectangles with non-negative sizes the distance of their
\* intersection is the Manhattan gap between them, and it is zero exactly
\* when touching holds, which is when they overlap or share an edge or a
\* corner.
C22_DistanceIsManhattanGap ==
    rresult /= <<>> =>
        LET d == distance(rresult[1].intersection)
        IN /\ d = Gap(rself, rother, 1) + Gap(rself, rother, 2)
           /\ (d = 0) <=> rresult[1].touching
           /\ rresult[1].touching <=> Meet(rself, rother)

\* C22 witness: rectangles that share only a corner are at distance zero and
\* touching, though their intersection is not Real.
C22_Witness ==
    /\ rself = Rect(0, 0, 2, 2)
    /\ rother = Rect(2, 2, 1, 1)
    /\ rresult /= <<>>
    /\ rresult[1].touching
    /\ rresult[1].intersection.kind = "None"
    /\ distance(rresult[1].intersection) = 0

----------------------------------------------------------------------------
(* vision.rs: line_between.  The iterator is the record of its fields. *)

\* LineOfSightIterator::iterate
iterate(it) ==
    IF it.p1 = it.p2 THEN [it EXCEPT !.has_next = FALSE]
    ELSE
        LET error2 == 2 * it.error
            stop_x == error2 >= it.d[2] /\ it.p1[1] = it.p2[1]
            it1 == IF error2 >= it.d[2]
                   THEN [it EXCEPT !.error = it.error + it.d[2],
                                   !.p1 = <<it.p1[1] + it.sign[1], it.p1[2]>>]
                   ELSE it
            stop_y == error2 <= it.d[1] /\ it1.p1[2] = it1.p2[2]
            it2 == IF error2 <= it.d[1]
                   THEN [it1 EXCEPT !.error = it1.error + it.d[1],
                                    !.p1 = <<it1.p1[1], it1.p1[2] + it.sign[2]>>]
                   ELSE it1
        IN IF stop_x THEN [it EXCEPT !.has_next = FALSE]
           ELSE IF stop_y THEN [it1 EXCEPT !.has_next = FALSE]
           ELSE it2

\* Iterator::next until it returns None: the points it returned, in order.
\* next reads has_next, then takes p1 as the result and iterates.
RECURSIVE Collect(_, _)
Collect(it, acc) ==
    IF ~it.has_next THEN acc
    ELSE Collect(iterate(it), Append(acc, it.p1))

line_between(p1, p2) ==
    LET offset == PointSub(p2, p1)
        d == <<Abs(offset[1]), -Abs(offset[2])>>
    IN Collect([p1 |-> p1, p2 |-> p2, d |-> d,
                sign |-> <<Signum(offset[1]), Signum(offset[2])>>,
                error |-> d[1] + d[2], has_next |-> TRUE], <<>>)

----------------------------------------------------------------------------
(* level.rs: Level::generate.  The floor kind (Wood, Grass, Stone) of a tile
   is drawn or fixed per tile and read by the renderer only; a tile here is
   "Floor" or "Wall". *)

GenWidth == 6        \* config.tileport.size.x
GenHeight == 5       \* config.tileport.size.y
MinRoomSize == 1     \* config.min_room_size
MaxRoomSize == 2     \* config.max_room_size
MinFloorPercent == 20    \* config.min_floor_ratio, in hundredths

MAX_ROOM_PLACEMENT_RETRIES == 100

\* The region inside the one-tile border of the tileport.
BorderedFloor(c) ==
    Rect(c.tileport.pos[1] + 1, c.tileport.pos[2] + 1,
         c.tileport.size[1] - 2, c.tileport.size[2] - 2)

\* The condition of the placement loop, floor_area / total_area compared
\* with min_floor_ratio.  The division is one of f32: by a total area of 0
\* it gives NaN or infinity, which is below no ratio, and by a negative total
\* area a quotient of the opposite sign.
BelowFloorRatio(c, fa) ==
    LET total_area == area(BorderedFloor(c))
    IN IF total_area > 0 THEN fa * 100 < c.min_floor_percent * total_area
       ELSE IF total_area = 0 THEN FALSE
       ELSE fa * 100 > c.min_floor_percent * total_area

\* One pass of the for loop over the placed rooms, from room k on.
RECURSIVE NudgePass(_, _, _, _, _)
NudgePass(new_room, rs, k, nudge, nudging) ==
    IF k > Len(rs) THEN [room |-> new_room, nudging |-> nudging]
    ELSE IF touching(new_room, rs[k])
         THEN NudgePass([new_room EXCEPT !.pos = PointAdd(new_room.pos, nudge)],
                        rs, k + 1, nudge, TRUE)
         ELSE NudgePass(new_room, rs, k + 1, nudge, nudging)

\* while nudging
RECURSIVE NudgeLoop(_, _, _)
NudgeLoop(new_room, rs, nudge) ==
    LET pass == NudgePass(new_room, rs, 1, nudge, FALSE)
    IN IF pass.nudging THEN NudgeLoop(pass.room, rs, nudge) ELSE pass.room

\* The nudged room kept as it is, not cropped.
CropNever(new_room, floor) == new_room

\* Crop the room to the floor region; size zero when it lies outside.
Crop(new_room, floor) ==
    LET i == intersection(new_room, floor)
    IN IF i.kind = "Real" THEN i.rect ELSE [new_room EXCEPT !.size = <<0, 0>>]

TooSmall(c, new_room) ==
    new_room.size[1] < c.min_room_size \/ new_room.size[2] < c.min_room_size

\* A carve that inserts a wall at each of the eight neighbours, whatever the
\* map holds there.
make_floor_walls_over(t, coords) ==
    LET around == (coords[1] - 1 .. coords[1] + 1) \X (coords[2] - 1 .. coords[2] + 1)
    IN [p \in (DOMAIN t) \cup around |->
            IF p = coords THEN "Floor"
            ELSE IF p \in around THEN "Wall" ELSE t[p]]

\* The closure make_floor: the tile becomes floor, its eight neighbours
\* become walls where the map has no tile yet.
make_floor(t, coords) ==
    LET around == (coords[1] - 1 .. coords[1] + 1) \X (coords[2] - 1 .. coords[2] + 1)
    IN [p \in (DOMAIN t) \cup around |->
            IF p = coords THEN "Floor"
            ELSE IF p \in DOMAIN t THEN t[p] ELSE "Wall"]

RECURSIVE MakeFloorAll(_, _, _)
MakeFloorAll(t, points, k) ==
    IF k > Len(points) THEN t
    ELSE MakeFloorAll(make_floor(t, points[k]), points, k + 1)

\* The tiles of a rectangle in the order of the loops, x outside, y inside.
RectPoints(r) ==
    [n \in 1 .. (r.size[1] * r.size[2]) |->
        <<r.pos[1] + ((n - 1) \div r.size[2]), r.pos[2] + ((n - 1) % r.size[2])>>]

\* Open the floor of each room, from room k on.
RECURSIVE OpenRooms(_, _, _)
OpenRooms(t, rs, k) ==
    IF k > Len(rs) THEN t
    ELSE OpenRooms(MakeFloorAll(t, RectPoints(rs[k]), 1), rs, k + 1)

\* The edges in the order they are pushed: for i, for j from i on (a room is
\* paired with itself too).  i and j count from 0 as in the code.
RECURSIVE BuildEdges(_, _, _)
BuildEdges(rs, i, j) ==
    IF i >= Len(rs) THEN <<>>
    ELSE IF j >= Len(rs) THEN BuildEdges(rs, i + 1, i + 1)
    ELSE <<[i |-> i, j |-> j, intersection |-> intersection(rs[i + 1], rs[j + 1])]>>
         \o BuildEdges(rs, i, j + 1)

\* Stable insertion in an order of descending distance.
RECURSIVE InsertEdge(_, _)
InsertEdge(sorted, e) ==
    IF sorted = <<>> THEN <<e>>
    ELSE IF distance(sorted[Len(sorted)].intersection) >= distance(e.intersection)
         THEN Append(sorted, e)
         ELSE Append(InsertEdge(SubSeq(sorted, 1, Len(sorted) - 1), e),
                     sorted[Len(sorted)])

\* edges.sort_by, a stable sort, on descending distance
RECURSIVE SortEdges(_, _, _)
SortEdges(es, k, sorted) ==
    IF k > Len(es) THEN sorted
    ELSE SortEdges(es, k + 1, InsertEdge(sorted, es[k]))

\* The two ends of the corridor between diagonal rooms, never swapped.
CornersNoSwap(rect, room1, room2) ==
    <<rect.pos, PointAdd(rect.pos, rect.size)>>

\* The two ends of the corridor between rooms that lie diagonally, "\" or
\* "/": the corners of the expanded gap rectangle, their y swapped for "/".
Corners(rect, room1, room2) ==
    IF (room1.pos[1] <= room2.pos[1]) = (room1.pos[2] <= room2.pos[2])
    THEN <<rect.pos, PointAdd(rect.pos, rect.size)>>
    ELSE LET p1 == rect.pos
             p3 == PointAdd(rect.pos, rect.size)
         IN << <<p1[1], p3[2]>>, <<p3[1], p1[2]>> >>

\* The waypoint lists the match on the intersection can produce, one for
\* each outcome of its random draw.
WaypointChoices(e, rs) ==
    LET rect == e.intersection.rect
    IN CASE e.intersection.kind = "Real" -> {<<>>}
         [] e.intersection.kind = "Horizontal" ->
              {<< <<x, rect.pos[2]>>, <<x, rect.pos[2] + rect.size[2] - 1>> >> :
                  x \in rect.pos[1] .. (rect.pos[1] + rect.size[1] - 1)}
         [] e.intersection.kind = "Vertical" ->
              {<< <<rect.pos[1], y>>, <<rect.pos[1] + rect.size[1] - 1, y>> >> :
                  y \in rect.pos[2] .. (rect.pos[2] + rect.size[2] - 1)}
         [] e.intersection.kind = "None" ->
              LET expanded == [pos |-> PointSub(rect.pos, <<1, 1>>),
                               size |-> PointAdd(rect.size, <<1, 1>>)]
                  ends == Corners(expanded, rs[e.i + 1], rs[e.j + 1])
                  p1 == ends[1]
                  p3 == ends[2]
              IN {<<p1, <<p1[1], p3[2]>>, p3>>, <<p1, <<p3[1], p1[2]>>, p3>>}

\* for waypoints in waypoints.windows(2), from window k on
RECURSIVE CarveWaypoints(_, _, _)
CarveWaypoints(t, waypoints, k) ==
    IF k + 1 > Len(waypoints) THEN t
    ELSE CarveWaypoints(
            MakeFloorAll(t, line_between(waypoints[k], waypoints[k + 1]), 1),
            waypoints, k + 1)

GEInit ==
    /\ config = [tileport |-> Rect(0, 0, GenWidth, GenHeight),
                 min_floor_percent |-> MinFloorPercent,
                 min_room_size |-> MinRoomSize,
                 max_room_size |-> MaxRoomSize]
    /\ rooms = <<>>
    /\ floor_area = 0
    /\ retries = 0
    /\ terrain = <<>>
    /\ edges = <<>>
    /\ connected_rooms = <<>>
    /\ gpc = "place"
    /\ taken = <<>>
    /\ DSIdle
    /\ DMIdle
    /\ VIIdle
    /\ RestIdle

\* An iteration of the placement loop that starts counting again at the
\* retry ceiling, where the loop breaks.
GEPlaceNoBreak ==
    /\ gpc = "place"
    /\ BelowFloorRatio(config, floor_area)
    /\ LET floor == BorderedFloor(config)
       IN \E sx \in config.min_room_size .. config.max_room_size,
             sy \in config.min_room_size .. config.max_room_size :
          \E dx \in 0 .. (floor.size[1] - sx), dy \in 0 .. (floor.size[2] - sy) :
          \E nudge \in Range(NEIGHBOR_OFFSETS_EIGHT) :
            LET drawn == Rect(floor.pos[1] + dx, floor.pos[2] + dy, sx, sy)
                new_room == Crop(NudgeLoop(drawn, rooms, nudge), floor)
            IN IF TooSmall(config, new_room)
               THEN /\ retries' = IF retries + 1 > MAX_ROOM_PLACEMENT_RETRIES
                                  THEN 0 ELSE retries + 1
                    /\ UNCHANGED <<rooms, floor_area, gpc>>
               ELSE /\ retries' = 0
                    /\ floor_area' = floor_area + area(new_room)
                    /\ rooms' = Append(rooms, new_room)
                    /\ UNCHANGED gpc
    /\ UNCHANGED <<config, terrain, edges, connected_rooms, taken>>
    /\ UNCHANGED dsVars
    /\ UNCHANGED dmVars
    /\ UNCHANGED viVars
    /\ UNCHANGED restVars

\* One iteration of the placement loop: draw a room, nudge it off the placed
\* rooms, crop it, and discard or accept it.
GEPlace ==
    /\ gpc = "place"
    /\ BelowFloorRatio(config, floor_area)
    /\ LET floor == BorderedFloor(config)
       IN \E sx \in config.min_room_size .. config.max_room_size,
             sy \in config.min_room_size .. config.max_room_size :
          \E dx \in 0 .. (floor.size[1] - sx), dy \in 0 .. (floor.size[2] - sy) :
          \E nudge \in Range(NEIGHBOR_OFFSETS_EIGHT) :
            LET drawn == Rect(floor.pos[1] + dx, floor.pos[2] + dy, sx, sy)
                new_room == Crop(NudgeLoop(drawn, rooms, nudge), floor)
            IN IF TooSmall(config, new_room)
               THEN /\ retries' = retries + 1
                    /\ gpc' = IF retries + 1 > MAX_ROOM_PLACEMENT_RETRIES
                              THEN "carve" ELSE "place"
                    /\ UNCHANGED <<rooms, floor_area>>
               ELSE /\ retries' = 0
                    /\ floor_area' = floor_area + area(new_room)
                    /\ rooms' = Append(rooms, new_room)
                    /\ UNCHANGED gpc
    /\ UNCHANGED <<config, terrain, edges, connected_rooms, taken>>
    /\ UNCHANGED dsVars
    /\ UNCHANGED dmVars
    /\ UNCHANGED viVars
    /\ UNCHANGED restVars

\* The placement loop ends because the floor ratio is reached.
GEPlaceEnd ==
    /\ gpc = "place"
    /\ ~BelowFloorRatio(config, floor_area)
    /\ gpc' = "carve"
    /\ UNCHANGED <<config, rooms, floor_area, retries, terrain, edges, connected_rooms, taken>>
    /\ UNCHANGED dsVars
    /\ UNCHANGED dmVars
    /\ UNCHANGED viVars
    /\ UNCHANGED restVars

\* Open the rooms' floors, then set up the disjoint sets and the sorted
\* edge queue.
GECarve ==
    /\ gpc = "carve"
    /\ terrain' = OpenRooms(<<>>, rooms, 1)
    /\ connected_rooms' = DSNew(Len(rooms))
    /\ edges' = SortEdges(BuildEdges(rooms, 0, 0), 1, <<>>)
    /\ gpc' = "connect"
    /\ UNCHANGED <<config, rooms, floor_area, retries, taken>>
    /\ UNCHANGED dsVars
    /\ UNCHANGED dmVars
    /\ UNCHANGED viVars
    /\ UNCHANGED restVars

\* Stop when all rooms are in one set and the rooms just merged were far
\* enough apart.
StopConnecting(size, len, e) == size = len /\ distance(e.intersection) > 2

\* One iteration of the connection loop: pop the closest pair, carve its
\* corridor, merge the two sets.
GEConnect ==
    /\ gpc = "connect"
    /\ edges /= <<>>
    /\ LET e == edges[Len(edges)]
           m == Merge(connected_rooms, e.i, e.j)
       IN /\ \E waypoints \in WaypointChoices(e, rooms) :
                /\ terrain' = CarveWaypoints(terrain, waypoints, 1)
                /\ taken' = Append(taken, [i |-> e.i, j |-> e.j,
                                            intersection |-> e.intersection,
                                            waypoints |-> waypoints,
                                            merge |-> m.ret])
          /\ connected_rooms' = m.nodes
          /\ edges' = SubSeq(edges, 1, Len(edges) - 1)
          /\ gpc' = IF StopConnecting(m.ret, Len(rooms), e) THEN "done" ELSE "connect"
    /\ UNCHANGED <<config, rooms, floor_area, retries>>
    /\ UNCHANGED dsVars
    /\ UNCHANGED dmVars
    /\ UNCHANGED viVars
    /\ UNCHANGED restVars

\* The connection loop ends because the edge queue is empty.
GEConnectEnd ==
    /\ gpc = "connect"
    /\ edges = <<>>
    /\ gpc' = "done"
    /\ UNCHANGED <<config, rooms, floor_area, retries, terrain, edges, connected_rooms, taken>>
    /\ UNCHANGED dsVars
    /\ UNCHANGED dmVars
    /\ UNCHANGED viVars
    /\ UNCHANGED restVars

GENext == GEPlace \/ GEPlaceEnd \/ GECarve \/ GEConnect \/ GEConnectEnd

SpecGE == GEInit /\ [][GENext]_vars

\* The floor tiles of a terrain.
FloorTiles(t) == {p \in DOMAIN t : t[p] = "Floor"}

\* The tiles of a rectangle.
TilesOf(r) ==
    (r.pos[1] .. (r.pos[1] + r.size[1] - 1)) \X (r.pos[2] .. (r.pos[2] + r.size[2] - 1))

\* The floor tiles reachable from the set S by steps up, down, left, right.
RECURSIVE Flood(_, _)
Flood(S, F) ==
    LET next == S \cup {q \in F : \E p \in S : EdgeAdjacent(p, q)}
    IN IF next = S THEN S ELSE Flood(next, F)

FourConnected(F) == F = {} \/ Flood({CHOOSE p \in F : TRUE}, F) = F

\* C1: the floor tiles of a generated level are 4-connected.
C1_FloorIsFourConnected ==
    gpc = "done" => FourConnected(FloorTiles(terrain))

\* C1 witness: a generated level of three rooms, two of them diagonal to
\* each other and joined by an elbow corridor, the floor larger than the
\* rooms alone.
C1_Witness ==
    /\ gpc = "done"
    /\ Len(rooms) >= 3
    /\ \E i \in 1 .. Len(rooms), j \in 1 .. Len(rooms) :
          intersection(rooms[i], rooms[j]).kind = "None"
    /\ Cardinality(FloorTiles(terrain)) > floor_area

\* C5: once the placement loop has ended, no two accepted rooms touch: they
\* share no tile, no edge and no corner.
C5_NoTwoRoomsTouch ==
    gpc \in {"carve", "connect", "done"} =>
        \A i \in 1 .. Len(rooms), j \in 1 .. Len(rooms) :
            i /= j =>
                /\ ~touching(rooms[i], rooms[j])
                /\ \A p \in TilesOf(rooms[i]), q \in TilesOf(rooms[j]) :
                       p /= q /\ ~Touching(p, q)

\* C5 witness: placement has ended with three accepted rooms, one of them
\* separated from another by a gap of a single tile.
C5_Witness ==
    /\ gpc = "carve"
    /\ Len(rooms) >= 3
    /\ \E i \in 1 .. Len(rooms), j \in 1 .. Len(rooms) :
          i /= j /\ distance(intersection(rooms[i], rooms[j])) = 1

----------------------------------------------------------------------------
(* level.rs: Level::generate, the end of the placement loop *)

\* A measure of the iterations the placement loop has left: the floor area
\* still free counts for a full run of retries, the retries left for one
\* each.
PlacementMeasure ==
    (area(BorderedFloor(config)) - floor_area) * (MAX_ROOM_PLACEMENT_RETRIES + 2)
        + (MAX_ROOM_PLACEMENT_RETRIES + 1 - retries)

\* What a step of the placement loop does to the retry counter, and how the
\* loop ends.
PlacementStep ==
    gpc = "place" =>
        /\ retries' <= MAX_ROOM_PLACEMENT_RETRIES + 1
        \* an iteration that stays in the loop uses up the measure, which
        \* never falls below zero: no run stays in the loop forever
        /\ gpc' = "place" =>
              /\ PlacementMeasure' < PlacementMeasure
              /\ PlacementMeasure' >= 0
        \* an accepted room resets the counter
        /\ rooms' /= rooms =>
              /\ Len(rooms') = Len(rooms) + 1
              /\ retries' = 0
              /\ gpc' = "place"
        \* a rejected candidate below the ceiling counts and continues
        /\ (rooms' = rooms /\ gpc' = "place") =>
              /\ retries' = retries + 1
              /\ retries' <= MAX_ROOM_PLACEMENT_RETRIES
        \* the loop ends on the floor ratio or on the 101st rejection in a row
        /\ gpc' /= "place" =>
              /\ gpc' = "carve"
              /\ rooms' = rooms
              /\ \/ /\ ~BelowFloorRatio(config, floor_area)
                    /\ retries' = retries
                 \/ /\ BelowFloorRatio(config, floor_area)
                    /\ retries = MAX_ROOM_PLACEMENT_RETRIES
                    /\ retries' = MAX_ROOM_PLACEMENT_RETRIES + 1

\* C14: the placement loop terminates for every sequence of draws: every
\* iteration, whose nudge loop has ended, lowers a measure that is never
\* negative; the loop ends when the floor ratio is reached or at the 101st
\* rejected candidate in a row, the counter being reset by every accepted
\* room, and generation goes on with the rooms accepted so far.
C14_PlacementTerminates == [][PlacementStep]_vars

\* C14 witness: generation has gone on after the placement loop ended on the
\* retry ceiling, below the floor ratio, with the two rooms accepted before.
C14_Witness ==
    /\ gpc = "connect"
    /\ retries = MAX_ROOM_PLACEMENT_RETRIES + 1
    /\ Len(rooms) = 2
    /\ BelowFloorRatio(config, floor_area)
    /\ connected_rooms = DSNew(2)

----------------------------------------------------------------------------
(* level.rs: Level::generate, the border of the tile region *)

\* The point p lies in the tile region r, at least `inset` tiles inside each
\* of its four edges.
InsideBy(p, r, inset) ==
    /\ r.pos[1] + inset <= p[1]
    /\ p[1] <= r.pos[1] + r.size[1] - 1 - inset
    /\ r.pos[2] + inset <= p[2]
    /\ p[2] <= r.pos[2] + r.size[2] - 1 - inset

\* The floor tiles that belong to no room: the corridors.
CorridorTiles == {p \in FloorTiles(terrain) :
                    \A k \in 1 .. Len(rooms) : p \notin TilesOf(rooms[k])}

\* C24: at every stage of carving, and in the generated level, every floor
\* tile, of a room or of a corridor, lies at least one tile inside each edge
\* of config.tileport, so the one-tile border holds no floor, and every key
\* of the terrain map, floor or wall, lies inside config.tileport.
C24_BorderHoldsNoFloor ==
    /\ \A p \in FloorTiles(terrain) : InsideBy(p, config.tileport, 1)
    /\ \A p \in DOMAIN terrain : InsideBy(p, config.tileport, 0)

\* C24 witness: a generated level with a corridor tile right next to the
\* border, a room tile right next to the border at the opposite edge, and
\* wall tiles on the border itself.
C24_Witness ==
    /\ gpc = "done"
    /\ \E p \in CorridorTiles : ~InsideBy(p, config.tileport, 2)
    /\ \E p \in FloorTiles(terrain) \ CorridorTiles :
          p[1] = config.tileport.pos[1] + config.tileport.size[1] - 2
    /\ \E p \in DOMAIN terrain :
          /\ terrain[p] = "Wall"
          /\ ~InsideBy(p, config.tileport, 1)

----------------------------------------------------------------------------
(* level.rs: the closure make_floor, called in any order *)

CarveWidth == 3
CarveHeight == 3

\* The coordinates carved.
CarveGrid == (0 .. (CarveWidth - 1)) \X (0 .. (CarveHeight - 1))

\* let mut terrain = HashMap::new()
MFInit ==
    /\ mterrain = <<>>
    /\ mcarved = {}
    /\ DSIdle
    /\ DMIdle
    /\ VIIdle
    /\ GEIdle
    /\ RIIdle
    /\ LVIdle

\* make_floor(&mut terrain, coords, floor)
MFCarve ==
    /\ \E coords \in CarveGrid :
          /\ mterrain' = make_floor(mterrain, coords)
          /\ mcarved' = mcarved \cup {coords}
    /\ UNCHANGED dsVars
    /\ UNCHANGED dmVars
    /\ UNCHANGED viVars
    /\ UNCHANGED geVars
    /\ UNCHANGED riVars
    /\ UNCHANGED lvVars

MFNext == MFCarve

SpecMF == MFInit /\ [][MFNext]_vars

\* The eight neighbours of a point.
EightAround(p) == ((p[1] - 1 .. p[1] + 1) \X (p[2] - 1 .. p[2] + 1)) \ {p}

\* C25: after any sequence of make_floor carves every coordinate carved is
\* a Floor tile, no later carve of a neighbour having turned it back into a
\* Wall, nothing else is floor, and all eight neighbours of every Floor tile
\* are in the map, as Wall or as Floor.
C25_CarvedFloorStays ==
    /\ \A p \in mcarved : p \in DOMAIN mterrain /\ mterrain[p] = "Floor"
    /\ FloorTiles(mterrain) = mcarved
    /\ \A p \in FloorTiles(mterrain) : \A q \in EightAround(p) :
          q \in DOMAIN mterrain /\ mterrain[q] \in {"Wall", "Floor"}

\* C25 witness: three tiles carved, two of them side by side and the third
\* diagonal to one of these, each a neighbour of another carved after or
\* before it, with a wall left next to them.
C25_Witness ==
    /\ mcarved = {<<0, 0>>, <<1, 0>>, <<2, 1>>}
    /\ mterrain[<<1, 0>>] = "Floor"
    /\ mterrain[<<1, 1>>] = "Wall"

----------------------------------------------------------------------------
(* level.rs: Level::generate, the connection loop *)

\* The pair taken has all rooms in one set after its merge and a gap of more
\* than 2.
CompletesFarApart(t) == t.merge = Len(rooms) /\ distance(t.intersection) > 2

\* The tiles on the corridor of a pair taken: the lines between its
\* consecutive waypoints.
CorridorOf(t) ==
    UNION {Range(line_between(t.waypoints[k], t.waypoints[k + 1])) :
              k \in 1 .. (Len(t.waypoints) - 1)}

\* C26: the connection loop takes the pairs in non-decreasing order of gap
\* distance; for each pair it takes it carves a corridor and merges the two
\* rooms' sets; it stops exactly after the first pair whose merge returns the
\* number of rooms and whose gap distance is greater than 2 (or when no pair
\* is left), a completing pair with a gap of 2 or less not stopping it; and
\* the floor is that of the rooms and of the corridors of the pairs taken,
\* none carved after the stop.
C26_ConnectionLoop ==
    /\ \A k \in 1 .. Len(taken), l \in 1 .. Len(taken) :
          k < l => distance(taken[k].intersection) <= distance(taken[l].intersection)
    /\ \A k \in 1 .. Len(taken) :
          /\ CorridorOf(taken[k]) /= {}
          /\ CorridorOf(taken[k]) \subseteq FloorTiles(terrain)
          /\ RootOf(connected_rooms, taken[k].i) = RootOf(connected_rooms, taken[k].j)
    /\ \A k \in 1 .. Len(taken) :
          CompletesFarApart(taken[k]) => k = Len(taken) /\ gpc = "done"
    /\ gpc = "done" =>
          \/ edges = <<>>
          \/ taken /= <<>> /\ CompletesFarApart(taken[Len(taken)])
    /\ gpc \in {"connect", "done"} =>
          FloorTiles(terrain) =
              UNION {TilesOf(rooms[k]) : k \in 1 .. Len(rooms)}
              \cup UNION {CorridorOf(taken[k]) : k \in 1 .. Len(taken)}

\* C27: no pair taken from the edge list has a Real intersection.
C27_NoRealPairTaken ==
    \A k \in 1 .. Len(taken) : taken[k].intersection.kind /= "Real"

----------------------------------------------------------------------------
(* level.rs: Level::generate called with a configuration that is a misuse *)

\* The tileport sides and the room sizes of the configurations tried.
MisuseSide == 4
MisuseRoomSize == 2

\* min_room_size > max_room_size, or a tileport too small for the border.
Misuse(c) ==
    \/ c.min_room_size > c.max_room_size
    \/ c.tileport.size[1] < 3
    \/ c.tileport.size[2] < 3

GEMisuseInit ==
    /\ \E w \in 0 .. MisuseSide, h \in 0 .. MisuseSide :
       \E lo \in 1 .. MisuseRoomSize, hi \in 1 .. MisuseRoomSize :
       \E pct \in {0, MinFloorPercent} :
          /\ config = [tileport |-> Rect(0, 0, w, h),
                       min_floor_percent |-> pct,
                       min_room_size |-> lo,
                       max_room_size |-> hi]
          /\ Misuse(config)
    /\ rooms = <<>>
    /\ floor_area = 0
    /\ retries = 0
    /\ terrain = <<>>
    /\ edges = <<>>
    /\ connected_rooms = <<>>
    /\ gpc = "place"
    /\ taken = <<>>
    /\ DSIdle
    /\ DMIdle
    /\ VIIdle
    /\ RestIdle

\* An iteration of the placement loop in which rng.gen_range is handed an
\* empty range, for the size or for the position of the room: it panics.
GEPlacePanic ==
    /\ gpc = "place"
    /\ BelowFloorRatio(config, floor_area)
    /\ LET floor == BorderedFloor(config)
       IN \/ config.min_room_size > config.max_room_size
          \/ \E sx \in config.min_room_size .. config.max_room_size,
                sy \in config.min_room_size .. config.max_room_size :
                floor.size[1] - sx < 0 \/ floor.size[2] - sy < 0
    /\ gpc' = "panic"
    /\ UNCHANGED <<config, rooms, floor_area, retries, terrain, edges, connected_rooms, taken>>
    /\ UNCHANGED dsVars
    /\ UNCHANGED dmVars
    /\ UNCHANGED viVars
    /\ UNCHANGED restVars

\* The steps generate can take on such a configuration: it panics while
\* drawing a room, or it leaves the placement loop without a room, carves
\* nothing, finds no edge to connect and returns.
GEMisuseNext == GEPlacePanic \/ GEPlaceEnd \/ GECarve \/ GEConnectEnd

SpecGEMisuse == GEMisuseInit /\ [][GEMisuseNext]_vars

\* C23: called with min_room_size > max_room_size or with a tileport less
\* than 3 wide or high, generate never returns a level, for every
\* min_floor_ratio: it panics.
C23_MisuseNeverReturns == gpc /= "done"

----------------------------------------------------------------------------
(* level.rs, creature.rs, game_state.rs: the creatures of a level          *)
(* The level is the record [objects, creatures, panic]: the Creature       *)
(* objects behind the shared references, the index from coordinates to     *)
(* objects, and whether an unwrap or a borrow has failed.  An object is    *)
(* named by the coordinates it was spawned with, which no other object of  *)
(* the level was spawned with: every spawn of a level precedes every move. *)

LevelWidth == 11     \* the floor of the level the game is played on, one
LevelHeight == 1     \* room
MaxKeys == 3         \* the keys of an action pressed
SpawnLimit == 10     \* take(10): the creatures Level::generate spawns at most

\* Species::base_stats
base_stats(species) ==
    CASE species = "Human" -> [health |-> 10, strength |-> 2]
      [] species = "Goblin" -> [health |-> 5, strength |-> 1]
      [] species = "Ogre" -> [health |-> 15, strength |-> 3]

\* Creature::new
NewCreature(faction, species, behavior, coords) ==
    [species |-> species, faction |-> faction, behavior |-> behavior,
     coords |-> coords, stats |-> base_stats(species)]

\* Creature::dead
dead(c) == c.stats.health = 0

\* Creature::take_damage: a saturating subtraction
take_damage(c, damage) ==
    [c EXCEPT !.stats.health = IF damage >= @ THEN 0 ELSE @ - damage]

\* HashMap::insert and HashMap::remove
MapInsert(f, k, v) == [x \in (DOMAIN f) \cup {k} |-> IF x = k THEN v ELSE f[x]]
MapRemove(f, k) == [x \in (DOMAIN f) \ {k} |-> f[x]]

\* Level::collision: "None" stands for no collision.
collision(t, cr, coords) ==
    IF coords \notin DOMAIN t THEN [kind |-> "OutOfBounds", other |-> <<>>]
    ELSE IF t[coords] = "Wall" THEN [kind |-> "Tile", other |-> <<>>]
    ELSE IF coords \in DOMAIN cr THEN [kind |-> "Object", other |-> cr[coords]]
    ELSE [kind |-> "None", other |-> <<>>]

\* Level::unoccupied_coords
unoccupied_coords(t, cr) ==
    {coords \in DOMAIN t : collision(t, cr, coords).kind = "None"}

\* Level::spawn: on a collision the level is left as it was (Err).
spawn(L, t, creature) ==
    IF collision(t, L.creatures, creature.coords).kind /= "None" THEN L
    ELSE [L EXCEPT !.objects = MapInsert(@, creature.coords, creature),
                   !.creatures = MapInsert(@, creature.coords, creature.coords)]

\* Level::attack
attack(L, attacker, defender) ==
    LET hit == [L EXCEPT !.objects[defender] =
                             take_damage(@, L.objects[attacker].stats.strength)]
    IN IF dead(hit.objects[defender])
       THEN [hit EXCEPT !.creatures = MapRemove(@, hit.objects[defender].coords)]
       ELSE hit

\* Level::move_creature.  The creature moved is borrowed mutably by the
\* caller, so borrowing it again as `other` fails, like the unwrap of a
\* missing index entry.
move_creature(L, t, id, to) ==
    LET from == L.objects[id].coords
        c == collision(t, L.creatures, to)
    IN IF from = to THEN L
       ELSE IF c.kind = "Object"
       THEN IF c.other = id THEN [L EXCEPT !.panic = TRUE]
            ELSE IF L.objects[id].faction /= L.objects[c.other].faction
            THEN attack(L, id, c.other)
            ELSE L
       ELSE IF c.kind /= "None" THEN L
       ELSE IF from \notin DOMAIN L.creatures THEN [L EXCEPT !.panic = TRUE]
       ELSE [L EXCEPT !.objects[id].coords = to,
                      !.creatures = MapInsert(MapRemove(@, from), to, L.creatures[from])]

\* Level::translate_creature
translate_creature(L, t, id, offset) ==
    move_creature(L, t, id, PointAdd(L.objects[id].coords, offset))

\* The loop over the four offsets in DijkstraMap::new, from the k-th on, for
\* the queue entry (coords, d); st is [dist, queue], `open` the points
\* where is_blocking is false.
RECURSIVE MapVisit(_, _, _, _, _)
MapVisit(st, coords, d, k, open) ==
    IF k > Len(NEIGHBOR_OFFSETS_FOUR) THEN st
    ELSE LET neighbor == PointAdd(coords, NEIGHBOR_OFFSETS_FOUR[k])
         IN IF neighbor \notin open \/ neighbor \in DOMAIN st.dist
            THEN MapVisit(st, coords, d, k + 1, open)
            ELSE MapVisit([dist |-> MapInsert(st.dist, neighbor, d + 1),
                           queue |-> Append(st.queue, <<neighbor, d + 1>>)],
                          coords, d, k + 1, open)

\* while let Some((coords, distance)) = queue.pop_front()
RECURSIVE MapSearch(_, _)
MapSearch(st, open) ==
    IF st.queue = <<>> THEN st.dist
    ELSE LET head == Head(st.queue)
         IN MapSearch(MapVisit([dist |-> st.dist, queue |-> Tail(st.queue)],
                               head[1], head[2], 1, open), open)

\* The goals as queue entries, in one of the orders the tiles can come in.
RECURSIVE SeedQueue(_)
SeedQueue(G) ==
    IF G = {} THEN <<>>
    ELSE LET g == CHOOSE x \in G : TRUE
         IN <<<<g, 0>>>> \o SeedQueue(G \ {g})

\* DijkstraMap::new, its distances.
DijkstraMapNew(G, open) ==
    MapSearch([dist |-> [g \in G |-> 0], queue |-> SeedQueue(G)], open)

\* Level::update_enemies_dijkstra_map: the goals are the creatures of another
\* faction; a point blocks unless it is free floor or holds a creature of
\* the faction.
update_enemies_dijkstra_map(L, t, faction) ==
    LET G == {coords \in DOMAIN t :
                 /\ coords \in DOMAIN L.creatures
                 /\ L.objects[L.creatures[coords]].faction /= faction}
        open == {coords \in DOMAIN t :
                    LET c == collision(t, L.creatures, coords)
                    IN \/ c.kind = "None"
                       \/ /\ c.kind = "Object"
                          /\ L.objects[c.other].faction = faction}
    IN DijkstraMapNew(G, open)

\* Creature::act: the levels it can leave, one for each random choice.  The
\* map of the creature's faction is there, update_dijkstra_maps having run.
act(L, t, map, id) ==
    LET c == L.objects[id]
    IN IF c.behavior = "Idle" THEN {L}
       ELSE LET best_offsets == BestOffsets(map, c.coords, c.stats.health = 1)
            IN IF best_offsets = <<>> THEN {L}
               ELSE UNION {
                      LET target == PointAdd(c.coords, offset)
                          d == DijkstraDistance(map, target)
                      IN IF d = <<>> THEN {[L EXCEPT !.panic = TRUE]}
                         ELSE IF d[1] < 10 THEN {translate_creature(L, t, id, offset)}
                         ELSE {translate_creature(L, t, id, w) :
                                  w \in Range(NEIGHBOR_OFFSETS_FOUR)}
                      : offset \in Range(best_offsets)}

\* The level as a record.
TheLevel == [objects |-> objects, creatures |-> creatures, panic |-> lpc = "panic"]

\* GameState.player, the creature spawn_player returned.
Player == CHOOSE id \in DOMAIN objects : objects[id].faction = "Ally"

\* The terrain Level::generate leaves for one room of the given width.
RoomTerrain(width) == OpenRooms(<<>>, <<Rect(0, 0, width, LevelHeight)>>, 1)

\* Nothing seen yet; the floor is the room of update_vision's is_blocking.
NothingSeen(width) ==
    /\ room = <<width, LevelHeight>>
    /\ walls = {}
    /\ origin = <<>>
    /\ vision = {}
    /\ vquadrant = 0
    /\ vqueue = <<>>
    /\ vscan = <<>>
    /\ vseen = {}
    /\ vpc = "idle"

\* A level of one room, its terrain freshly generated, no creature spawned.
Fresh(width) ==
    /\ lterrain = RoomTerrain(width)
    /\ objects = <<>>
    /\ creatures = <<>>
    /\ enemies_map = <<>>
    /\ lqueue = {}
    /\ lkeys = 0
    /\ lpc = "spawn"
    /\ NothingSeen(width)
    /\ DSIdle
    /\ DMIdle
    /\ GEIdle
    /\ RIIdle
    /\ MFIdle

\* Level::generate, one iteration of the loop that spawns the creatures: the
\* next of the shuffled unoccupied coordinates, of which it takes ten, an
\* ogre or a goblin.
LVSpawn ==
    /\ lpc = "spawn"
    /\ Cardinality(DOMAIN objects) < SpawnLimit
    /\ \E coords \in unoccupied_coords(lterrain, creatures),
          species \in {"Ogre", "Goblin"} :
          LET L == spawn(TheLevel, lterrain,
                         NewCreature("Enemy", species, "Patrolling", coords))
          IN /\ objects' = L.objects
             /\ creatures' = L.creatures
    /\ UNCHANGED <<lterrain, enemies_map, lqueue, lkeys, lpc>>
    /\ UNCHANGED dsVars
    /\ UNCHANGED dmVars
    /\ UNCHANGED viVars
    /\ UNCHANGED geVars
    /\ UNCHANGED riVars
    /\ UNCHANGED mfVars

\* The loop ends after ten coordinates or when they have run out, and
\* Level::generate returns the level.
LVSpawnEnd ==
    /\ lpc = "spawn"
    /\ \/ Cardinality(DOMAIN objects) = SpawnLimit
       \/ unoccupied_coords(lterrain, creatures) = {}
    /\ lpc' = "player"
    /\ UNCHANGED <<lterrain, objects, creatures, enemies_map, lqueue, lkeys>>
    /\ UNCHANGED dsVars
    /\ UNCHANGED dmVars
    /\ UNCHANGED viVars
    /\ UNCHANGED geVars
    /\ UNCHANGED riVars
    /\ UNCHANGED mfVars

\* Level::spawn_player, which fails when no tile is unoccupied.
LVSpawnPlayer ==
    /\ lpc = "player"
    /\ IF unoccupied_coords(lterrain, creatures) = {}
       THEN /\ lpc' = "no tile"
            /\ UNCHANGED <<objects, creatures>>
       ELSE \E coords \in unoccupied_coords(lterrain, creatures) :
              LET L == spawn(TheLevel, lterrain,
                             NewCreature("Ally", "Human", "Idle", coords))
              IN /\ objects' = L.objects
                 /\ creatures' = L.creatures
                 /\ lpc' = "play"
    /\ UNCHANGED <<lterrain, enemies_map, lqueue, lkeys>>
    /\ UNCHANGED dsVars
    /\ UNCHANGED dmVars
    /\ UNCHANGED viVars
    /\ UNCHANGED geVars
    /\ UNCHANGED riVars
    /\ UNCHANGED mfVars

\* key_down_event with a key of an action, the player alive, and
\* GameState::act up to the queue of Level::update: the player's move, the
\* Dijkstra maps, the creatures collected in the order of the index, which
\* is any order.  A panic in the move ends the call.
LVKey ==
    /\ lpc = "play"
    /\ lkeys < MaxKeys
    /\ ~dead(objects[Player])
    /\ \E action \in {<<0, 0>>} \cup Range(NEIGHBOR_OFFSETS_FOUR) :
          LET L == IF action = <<0, 0>> THEN TheLevel
                   ELSE translate_creature(TheLevel, lterrain, Player, action)
          IN /\ objects' = L.objects
             /\ creatures' = L.creatures
             /\ lkeys' = lkeys + 1
             /\ IF L.panic
                THEN /\ lpc' = "panic"
                     /\ UNCHANGED <<enemies_map, lqueue>>
                ELSE /\ enemies_map' = update_enemies_dijkstra_map(L, lterrain, "Enemy")
                     /\ lqueue' = Range(L.creatures)
                     /\ lpc' = "update"
    /\ UNCHANGED lterrain
    /\ UNCHANGED dsVars
    /\ UNCHANGED dmVars
    /\ UNCHANGED viVars
    /\ UNCHANGED geVars
    /\ UNCHANGED riVars
    /\ UNCHANGED mfVars

\* Level::update, one iteration: pop a creature, whichever the order of the
\* index has left at the end of the queue, and let it act unless it has
\* died.
LVAct ==
    /\ lpc = "update"
    /\ \E id \in lqueue :
          /\ lqueue' = lqueue \ {id}
          /\ IF dead(objects[id])
             THEN UNCHANGED <<objects, creatures, lpc>>
             ELSE \E L \in act(TheLevel, lterrain, enemies_map, id) :
                     /\ objects' = L.objects
                     /\ creatures' = L.creatures
                     /\ lpc' = IF L.panic THEN "panic" ELSE "update"
    /\ UNCHANGED <<lterrain, enemies_map, lkeys>>
    /\ UNCHANGED dsVars
    /\ UNCHANGED dmVars
    /\ UNCHANGED viVars
    /\ UNCHANGED geVars
    /\ UNCHANGED riVars
    /\ UNCHANGED mfVars

\* Level::update returns, and GameState::act ends with
\* update_vision(player.coords): Level.vision is what get_vision returns
\* from there, every point that holds no Floor tile blocking.
LVUpdateEnd ==
    /\ lpc = "update"
    /\ lqueue = {}
    /\ origin' = objects[Player].coords
    /\ vision' = get_vision(objects[Player].coords, walls)
    /\ lpc' = "play"
    /\ UNCHANGED <<lterrain, objects, creatures, enemies_map, lqueue, lkeys>>
    /\ UNCHANGED <<room, walls, vquadrant, vqueue, vscan, vseen, vpc>>
    /\ UNCHANGED dsVars
    /\ UNCHANGED dmVars
    /\ UNCHANGED geVars
    /\ UNCHANGED riVars
    /\ UNCHANGED mfVars

\* Level::generate and spawn_player for the room the game is played on.
LVGenInit == Fresh(LevelWidth)

LVGenNext == LVSpawn \/ LVSpawnEnd \/ LVSpawnPlayer

SpecLVGen == LVGenInit /\ [][LVGenNext]_vars

\* The game, from the generation of its level on.
LVInit == Fresh(LevelWidth)

LVNext == LVSpawn \/ LVSpawnEnd \/ LVSpawnPlayer \/ LVKey \/ LVAct \/ LVUpdateEnd

SpecLV == LVInit /\ [][LVNext]_vars

\* C29: the creature index stays consistent after generation and after
\* every player action and every step of a level update: every entry is
\* keyed by its creature's own coordinates, stands on a Floor tile and is
\* not dead; no two creatures that are alive share a tile, each being the
\* entry of its own coordinates; and no unwrap in move_creature has failed.
C29_CreatureIndexConsistent ==
    /\ \A p \in DOMAIN creatures :
          /\ creatures[p] \in DOMAIN objects
          /\ objects[creatures[p]].coords = p
          /\ p \in DOMAIN lterrain /\ lterrain[p] = "Floor"
          /\ ~dead(objects[creatures[p]])
    /\ \A id \in DOMAIN objects :
          ~dead(objects[id]) =>
              /\ objects[id].coords \in DOMAIN creatures
              /\ creatures[objects[id].coords] = id
    /\ \A a \in DOMAIN objects, b \in DOMAIN objects :
          (a /= b /\ ~dead(objects[a]) /\ ~dead(objects[b])) =>
              objects[a].coords /= objects[b].coords
    /\ lpc /= "panic"

====
